---- MODULE Spec2Model ----
(***************************************************************************)
(* The momentum store (src/src/lib/momentum-store.ts) with its local cache  *)
(* (src/src/lib/storage.ts) and its focus-queue reconciler, and the         *)
(* scheduler store createTaskStore (src/unnamed/part_006).                  *)
(*                                                                          *)
(* Instants are ticks; a calendar day is MS_IN_DAY ticks long.  JavaScript  *)
(* null/undefined is Null.  Object identity (===) is modelled where the     *)
(* code reads it: a patch names the keys whose value is the very object the *)
(* previous state held (sameRef); every other object is a fresh allocation. *)
(***************************************************************************)
EXTENDS Integers, Sequences, FiniteSets, TLC

\* ------------------------------------------------------------------ bounds
MaxTasks == 1        \* tasks the store may hold once tasks are added
FocusTasks == 3      \* tasks in the snapshot SpecFocus hydrates from
MaxListeners == 1    \* subscribed listeners
PlanTasks == 1       \* tasks createTaskStore may hold
AutoTasks == 2       \* tasks in the lists the scheduler is run on
IdTasks == 1         \* tasks in the snapshot SpecIds hydrates from
DefaultPlanningHorizonDays == 2  \* look-ahead of the default scheduler settings
CallTasks == 2       \* tasks the store may hold when setState is followed step by step

\* --------------------------------------------------------------- constants
Null == -1           \* null / undefined
MS_IN_DAY == 2       \* ticks per calendar day
Now == 3             \* the instant new Date() returns (second tick of day 1)
DefaultWeekSpan == 7

Status == {"backlog", "active", "blocked", "done", "archived"}
Keys == {"tasks", "settings", "focusMode", "autoPlanEnabled", "session"}

\* ----------------------------------------------------------------- helpers
Range(s) == {s[i] : i \in 1..Len(s)}

\* tasks.findIndex(t => t.id === id): 0 stands for -1
FindIndex(ts, id) ==
  IF \E i \in 1..Len(ts) : ts[i].id = id
  THEN CHOOSE i \in 1..Len(ts) : ts[i].id = id /\ \A j \in 1..(i-1) : ts[j].id # id
  ELSE 0

\* queue.indexOf(id): 0 stands for -1
IndexOf(q, id) ==
  IF \E i \in 1..Len(q) : q[i] = id
  THEN CHOOSE i \in 1..Len(q) : q[i] = id /\ \A j \in 1..(i-1) : q[j] # id
  ELSE 0

\* { ...task, ...patch }: the patch's fields override the task's
Spread(task, patch) ==
  [f \in DOMAIN task |-> IF f \in DOMAIN patch THEN patch[f] ELSE task[f]]

\* ------------------------------------------------------------ time horizon
startOfDay(t) == t - (t % MS_IN_DAY)

getTimeHorizon(planned, reference, weekSpan) ==
  IF planned = Null THEN "unscheduled"
  ELSE LET diff == (startOfDay(planned) - startOfDay(reference)) \div MS_IN_DAY
       IN  IF diff < 0 THEN "overdue"
           ELSE IF diff = 0 THEN "today"
           ELSE IF diff = 1 THEN "tomorrow"
           ELSE IF diff < weekSpan THEN "thisWeek"
           ELSE "later"

\* ------------------------------------------------------------- focus queue
\* mutant: the queue and the active id survive disabling
createFocusModeStateKeepsQueue(base) ==
  [enabled |-> base.enabled, activeTaskId |-> base.activeTaskId, queue |-> base.queue]

createFocusModeState(base) ==
  [enabled      |-> base.enabled,
   activeTaskId |-> IF base.enabled THEN base.activeTaskId ELSE Null,
   queue        |-> IF base.enabled THEN base.queue ELSE <<>>]

\* the comparator of computeFocusQueue's sort: < 0 when a goes first
FocusCompare(a, b) ==
  LET pinWeight == (IF b.manualPinned THEN 1 ELSE 0) - (IF a.manualPinned THEN 1 ELSE 0)
      plannedA  == IF a.plannedDate # Null THEN a.plannedDate ELSE 0
      plannedB  == IF b.plannedDate # Null THEN b.plannedDate ELSE 0
      createdA  == IF a.createdAt # Null THEN a.createdAt ELSE 0
      createdB  == IF b.createdAt # Null THEN b.createdAt ELSE 0
  IN  IF pinWeight # 0 THEN pinWeight
      ELSE IF plannedA # plannedB THEN plannedA - plannedB
      ELSE createdA - createdB

\* Array.prototype.sort is stable: x goes before the first element it precedes
RECURSIVE InsertSorted(_, _)
InsertSorted(x, s) ==
  IF s = <<>> THEN <<x>>
  ELSE IF FocusCompare(x, Head(s)) < 0 THEN <<x>> \o s
  ELSE <<Head(s)>> \o InsertSorted(x, Tail(s))

RECURSIVE SortTasks(_)
SortTasks(s) ==
  IF s = <<>> THEN <<>>
  ELSE InsertSorted(s[Len(s)], SortTasks(SubSeq(s, 1, Len(s) - 1)))

Eligible(task, weekSpan) ==
  /\ task.status # "done"
  /\ task.status # "archived"
  /\ task.plannedDate # Null
  /\ getTimeHorizon(task.plannedDate, Now, weekSpan) = "today"

IdsOf(sorted) == [i \in 1..Len(sorted) |-> sorted[i].id]

computeFocusQueue(ts, sett) ==
  IdsOf(SortTasks(SelectSeq(ts, LAMBDA t : Eligible(t, sett.weekSpan))))

\* the ids of s in order, each once, that are in avail and not in seen
RECURSIVE PushUnseen(_, _, _)
PushUnseen(s, avail, seen) ==
  IF s = <<>> THEN <<>>
  ELSE IF Head(s) \notin avail \/ Head(s) \in seen
       THEN PushUnseen(Tail(s), avail, seen)
       ELSE <<Head(s)>> \o PushUnseen(Tail(s), avail, seen \cup {Head(s)})

\* the second pass of mergeQueueOrder, over what the first pass kept
AppendComputed(first, computedQueue) ==
  first \o PushUnseen(computedQueue, Range(computedQueue), Range(first))

\* mutant: the queue is recomputed, the order it had is forgotten
mergeQueueOrderRecomputed(currentQueue, computedQueue) == computedQueue

\* mutant: the ids kept from the current queue are unshifted, not pushed
mergeQueueOrderUnshift(currentQueue, computedQueue) ==
  AppendComputed([k \in 1..Len(PushUnseen(currentQueue, Range(computedQueue), {})) |->
                    PushUnseen(currentQueue, Range(computedQueue), {})[
                      Len(PushUnseen(currentQueue, Range(computedQueue), {})) + 1 - k]],
                 computedQueue)

\* mutant: the first pass keeps every id of the current queue, eligible or not
mergeQueueOrderKeepsUnavailable(currentQueue, computedQueue) ==
  AppendComputed(PushUnseen(currentQueue, Range(currentQueue), {}), computedQueue)

mergeQueueOrder(currentQueue, computedQueue) ==
  AppendComputed(PushUnseen(currentQueue, Range(computedQueue), {}), computedQueue)

\* mutant: the front of the merged queue always becomes active
ReconcileActiveAlwaysFirst(normalized, mergedQueue) ==
  [enabled      |-> TRUE,
   activeTaskId |-> IF mergedQueue # <<>> THEN mergedQueue[1] ELSE Null,
   queue        |-> mergedQueue]

\* mutant: the active id is kept although it left the merged queue
ReconcileActiveStale(normalized, mergedQueue) ==
  [enabled      |-> TRUE,
   activeTaskId |-> IF normalized.activeTaskId = Null
                    THEN (IF mergedQueue # <<>> THEN mergedQueue[1] ELSE Null)
                    ELSE normalized.activeTaskId,
   queue        |-> mergedQueue]

\* lines 171-180 of reconcileFocusModeState: the active id kept or replaced
ReconcileActive(normalized, mergedQueue) ==
  [enabled      |-> TRUE,
   activeTaskId |-> IF normalized.activeTaskId = Null
                         \/ normalized.activeTaskId \notin Range(mergedQueue)
                    THEN (IF mergedQueue # <<>> THEN mergedQueue[1] ELSE Null)
                    ELSE normalized.activeTaskId,
   queue        |-> mergedQueue]

ReconcileNormalized(normalized, next) ==
  IF ~normalized.enabled THEN normalized
  ELSE ReconcileActive(normalized,
         mergeQueueOrder(normalized.queue, computeFocusQueue(next.tasks, next.settings)))

reconcileFocusModeState(previous, next) ==
  ReconcileNormalized(createFocusModeState(next.focusMode), next)

\* ------------------------------------------------------------------- state
VARIABLES
  state,             \* the held MomentumState
  listeners,         \* how many listeners are subscribed
  autoPlanCallback,  \* "none", or the kind of Scheduler callback registered
  storage,           \* localStorage: "ok", "quota" (setItem throws) or "none" (no storageRef)
  cache,             \* the blob kept under STORAGE_KEY
  lastOp,            \* the most recent operation and what it did
  hydration,         \* how module initialisation ended: "ok", "tasksNotArray", "threw"
  taskStore,         \* createTaskStore: the state the closure holds
  taskStoreListeners,\* createTaskStore: number of subscribed listeners
  planOp,            \* createTaskStore: the most recent call and what it did
  calls,             \* the setState activations in progress, the innermost last
  events             \* what the running mutation has done so far, in order

vars == <<state, listeners, autoPlanCallback, storage, cache, lastOp, hydration,
          taskStore, taskStoreListeners, planOp, calls, events>>

\* the call stack and its record, which only the step-by-step specification moves
callVars == <<calls, events>>

\* no mutation is running
IdleCalls == calls = <<>> /\ events = <<>>

\* the variables of createTaskStore, which the momentum store never touches
planVars == <<taskStore, taskStoreListeners, planOp>>

\* the variables of the momentum store, which createTaskStore never touches
storeVars == <<state, listeners, autoPlanCallback, storage, cache, lastOp, hydration>>

createDefaultSession == [userId |-> Null, isAuthenticated |-> FALSE]

DEFAULT_USER_SETTINGS == [weekSpan |-> DefaultWeekSpan]

createDefaultState ==
  [tasks           |-> <<>>,
   settings        |-> DEFAULT_USER_SETTINGS,
   focusMode       |-> createFocusModeState([enabled |-> FALSE, activeTaskId |-> Null, queue |-> <<>>]),
   autoPlanEnabled |-> TRUE,
   session         |-> createDefaultSession]

\* a new task as addQuickTask builds it (fields the store never reads are left out)
NewTask(id, createdAt) ==
  [id |-> id, status |-> "backlog", plannedDate |-> Null, manualPinned |-> FALSE,
   createdAt |-> createdAt, completedAt |-> Null]

TaskIdsOf(ts) == {ts[i].id : i \in 1..Len(ts)}

\* ------------------------------------------------------------------- cache
AbsentBlob    == [kind |-> "absent",    value |-> createDefaultState]
MalformedBlob == [kind |-> "malformed", value |-> createDefaultState]
SnapshotBlob(value) == [kind |-> "snapshot", value |-> value]

\* parsable JSON of the wrong shape: an object whose tasks field is not an array
\* (the value's tasks stand in for it and are never read as tasks)
WrongShapeBlob(focusMode) ==
  [kind |-> "wrongShape", value |-> [createDefaultState EXCEPT !.focusMode = focusMode]]

\* loadJSON: no item, or text JSON.parse rejects, gives the fallback (null)
loadJSON(blob) ==
  IF blob.kind \in {"snapshot", "wrongShape"} THEN [isNull |-> FALSE, value |-> blob.value]
  ELSE [isNull |-> TRUE, value |-> createDefaultState]

\* mutant: no try/catch around setItem
SaveJSONUncaught(blob, value) ==
  [cache |-> IF storage = "ok" THEN SnapshotBlob(value) ELSE blob,
   threw |-> storage = "quota"]

\* saveJSON: setItem inside try/catch; without a storageRef setItem does nothing
SaveJSON(blob, value) ==
  [cache |-> IF storage = "ok" THEN SnapshotBlob(value) ELSE blob,
   threw |-> FALSE]

\* mutant: the snapshot written leaves the focus mode out
persistStateWithoutFocusMode(blob, value) ==
  SaveJSON(blob, [value EXCEPT !.focusMode =
                                 [enabled |-> FALSE, activeTaskId |-> Null, queue |-> <<>>]])

persistState(blob, value) == SaveJSON(blob, value)

\* lines 205-222 of hydrateState
HydrateBase(base, persisted) ==
  [base EXCEPT !.focusMode = reconcileFocusModeState(base, base),
               !.session   = Spread(createDefaultSession, persisted.session)]

HydratePersisted(persisted) ==
  HydrateBase([tasks           |-> persisted.tasks,
               settings        |-> Spread(DEFAULT_USER_SETTINGS, persisted.settings),
               focusMode       |-> createFocusModeState(persisted.focusMode),
               autoPlanEnabled |-> persisted.autoPlanEnabled,
               session         |-> createDefaultSession],
              persisted)

HydrateLoaded(loaded) ==
  IF loaded.isNull THEN createDefaultState ELSE HydratePersisted(loaded.value)

hydrateState(blob) == HydrateLoaded(loadJSON(blob))

\* how hydrateState ends (line 225, at module initialisation): nothing validates
\* the parsed value, so a tasks field that is no array is held as it is, and with
\* focus mode enabled computeFocusQueue calls tasks.filter on it: a TypeError
HydrationOutcome(blob) ==
  IF blob.kind # "wrongShape" THEN "ok"
  ELSE IF createFocusModeState(blob.value.focusMode).enabled THEN "threw"
  ELSE "tasksNotArray"

\* ---------------------------------------------------------------- setState
\* what one operation did: commits, persistState calls, listener calls, Scheduler
\* calls, an exception reaching the caller, and the commits of setState whose next
\* state equals the previous one field by field
ZeroEff ==
  [commits |-> 0, persists |-> 0, notified |-> 0, sched |-> 0, threw |-> FALSE,
   idleCommits |-> 0]

World(st, blob) == [st |-> st, cache |-> blob, eff |-> ZeroEff]

NullPatch == [isNull |-> TRUE, value |-> <<>>, sameRef |-> {}]

\* a patch object: its own keys with their values; sameRef are the keys whose
\* value is the object the previous state already holds
Patch(value, sameRef) == [isNull |-> FALSE, value |-> value, sameRef |-> sameRef]

\* previous[key] !== next[key]
RefDiffers(previous, next, patch, key) ==
  IF key = "autoPlanEnabled" THEN previous[key] # next[key]
  ELSE IF key = "focusMode" THEN TRUE
  ELSE key \notin patch.sameRef

\* previous.focusMode !== next.focusMode, next.focusMode being what
\* reconcileFocusModeState returned: an object literal it has just built
focusModeChanged(previous, next) == TRUE

\* mutant: options.skipAutoPlan is not read
maybeRunAutoPlanIgnoresSkip(W, prev, next, patch, options) ==
  IF autoPlanCallback = "none" \/ ~next.autoPlanEnabled
  THEN W
  ELSE IF \/ "tasks" \in DOMAIN patch.value /\ RefDiffers(prev, next, patch, "tasks")
          \/ "settings" \in DOMAIN patch.value /\ RefDiffers(prev, next, patch, "settings")
       THEN [W EXCEPT !.eff.sched = @ + 1]
       ELSE W

\* mutant: next.autoPlanEnabled is not read
maybeRunAutoPlanWhenDisabled(W, prev, next, patch, options) ==
  IF options.skipAutoPlan \/ autoPlanCallback = "none"
  THEN W
  ELSE IF \/ "tasks" \in DOMAIN patch.value /\ RefDiffers(prev, next, patch, "tasks")
          \/ "settings" \in DOMAIN patch.value /\ RefDiffers(prev, next, patch, "settings")
       THEN [W EXCEPT !.eff.sched = @ + 1]
       ELSE W

maybeRunAutoPlan(W, prev, next, patch, options) ==
  IF options.skipAutoPlan \/ autoPlanCallback = "none" \/ ~next.autoPlanEnabled
  THEN W
  ELSE IF \/ "tasks" \in DOMAIN patch.value /\ RefDiffers(prev, next, patch, "tasks")
          \/ "settings" \in DOMAIN patch.value /\ RefDiffers(prev, next, patch, "settings")
       THEN [W EXCEPT !.eff.sched = @ + 1]
       ELSE W

notify(W) == [W EXCEPT !.eff.notified = @ + listeners]

\* lines 302-306: the held state replaced, then persistState unless persist is false
Persisted(W, saved, options) ==
  IF options.persist
  THEN [W EXCEPT !.cache = saved.cache, !.eff.persists = @ + 1, !.eff.threw = saved.threw]
  ELSE W

\* lines 308-309: an exception of the write would leave before notify
AfterPersist(W, previous, next, patch, options) ==
  IF W.eff.threw THEN W
  ELSE maybeRunAutoPlan(notify(W), previous, next, patch, options)

Commit(W, previous, next, patch, options) ==
  AfterPersist(
    Persisted([W EXCEPT !.st = next,
                        !.eff.commits = @ + 1,
                        !.eff.idleCommits = @ + (IF next = previous THEN 1 ELSE 0)],
              persistState(W.cache, next), options),
    previous, next, patch, options)

\* lines 290-300
CommitIfChanged(W, previous, next, patch, options) ==
  IF \/ focusModeChanged(previous, next)
     \/ \E key \in DOMAIN patch.value : RefDiffers(previous, next, patch, key)
  THEN Commit(W, previous, next, patch, options)
  ELSE W

\* lines 280-288
Reconciled(previous, merged) ==
  [merged EXCEPT !.focusMode = reconcileFocusModeState(previous, merged)]

SetState(W, patch, options) ==
  IF W.eff.threw \/ patch.isNull THEN W
  ELSE CommitIfChanged(W, W.st, Reconciled(W.st, Spread(W.st, patch.value)), patch, options)

DefaultOptions == [persist |-> TRUE, skipAutoPlan |-> FALSE]
SkipAutoPlan   == [persist |-> TRUE, skipAutoPlan |-> TRUE]

\* the operation has returned: the state it left and what it did
Finish(name, hit, W) ==
  /\ state' = W.st
  /\ cache' = W.cache
  /\ lastOp' = [name |-> name, hit |-> hit, commits |-> W.eff.commits,
                persists |-> W.eff.persists, notified |-> W.eff.notified,
                sched |-> W.eff.sched, threw |-> W.eff.threw,
                idleCommits |-> W.eff.idleCommits]
  /\ UNCHANGED <<listeners, autoPlanCallback, storage, hydration, planVars, callVars>>

Start == World(state, cache)

\* ------------------------------------------------------------------ inputs
IdPool == 1..(IF MaxTasks > FocusTasks THEN MaxTasks ELSE FocusTasks)

\* the tasks callers hand to upsertTask (own keys only)
UpsertInputs ==
  {[id |-> i, status |-> "backlog", plannedDate |-> d, manualPinned |-> FALSE, createdAt |-> Now] :
     i \in 1..MaxTasks, d \in {2}}

\* the patches callers hand to updateTask: pin to today, unplan
TaskPatches ==
  {[plannedDate |-> Now, manualPinned |-> TRUE],
   [plannedDate |-> Null, manualPinned |-> FALSE]}

StatusInputs == {"backlog", "active", "done"}

SettingsPatches == {[weekSpan |-> 1], [weekSpan |-> DefaultWeekSpan]}

SessionPatches == {[userId |-> 1, isAuthenticated |-> TRUE]}

\* -------------------------------------------------------------- operations
withTimestamps(task, isNew) ==
  [task EXCEPT !.createdAt = IF isNew /\ task.createdAt = Null THEN Now ELSE task.createdAt]

UpsertPatch(current, existingIndex, task) ==
  IF existingIndex = 0
  THEN Patch([tasks |-> Append(current.tasks,
                               withTimestamps(Spread(NewTask(Null, Null), task), TRUE))], {})
  ELSE Patch([tasks |-> [current.tasks EXCEPT ![existingIndex] =
                           withTimestamps(Spread(@, task), FALSE)]], {})

upsertTask(W, task) ==
  SetState(W, UpsertPatch(W.st, FindIndex(W.st.tasks, task.id), task), DefaultOptions)

\* mutant: the id of the patch wins over the target id
UpdatePatchTrustsPatch(current, index, taskId, patch) ==
  IF index = 0 THEN NullPatch
  ELSE Patch([tasks |-> [current.tasks EXCEPT ![index] =
                withTimestamps(Spread(@, patch), FALSE)]], {})

UpdatePatch(current, index, taskId, patch) ==
  IF index = 0 THEN NullPatch
  ELSE Patch([tasks |-> [current.tasks EXCEPT ![index] =
                withTimestamps([Spread(@, patch) EXCEPT !.id = taskId], FALSE)]], {})

updateTask(W, taskId, patch) ==
  SetState(W, UpdatePatch(W.st, FindIndex(W.st.tasks, taskId), taskId, patch), DefaultOptions)

removeTask(W, taskId) ==
  SetState(W,
    Patch([tasks |-> SelectSeq(W.st.tasks, LAMBDA task : task.id # taskId)], {}),
    DefaultOptions)

updateTaskStatus(W, taskId, status) ==
  SetState(W,
    Patch([tasks |-> [i \in 1..Len(W.st.tasks) |->
                        IF W.st.tasks[i].id = taskId
                        THEN withTimestamps([W.st.tasks[i] EXCEPT !.status = status], FALSE)
                        ELSE W.st.tasks[i]]], {}),
    DefaultOptions)

enterFocusMode(W) ==
  SetState(W,
    Patch([focusMode |-> createFocusModeState([W.st.focusMode EXCEPT !.enabled = TRUE])], {}),
    SkipAutoPlan)

exitFocusMode(W) ==
  SetState(W,
    Patch([focusMode |-> createFocusModeState(
             [enabled |-> FALSE, activeTaskId |-> Null, queue |-> <<>>])], {}),
    SkipAutoPlan)

toggleFocusMode(W) ==
  SetState(W,
    Patch([focusMode |-> createFocusModeState(
             [W.st.focusMode EXCEPT !.enabled = ~W.st.focusMode.enabled])], {}),
    SkipAutoPlan)

\* tasks.find(task => task.id === focusMode.activeTaskId): its index, 0 for undefined
ActiveTask(st) == FindIndex(st.tasks, st.focusMode.activeTaskId)

\* activeTask && activeTask.status === status
ActiveTaskHas(st, status) ==
  \E i \in 1..Len(st.tasks) : i = ActiveTask(st) /\ st.tasks[i].status = status

\* the guard both focus-task operations open with
NoActiveTask(st) == ~st.focusMode.enabled \/ st.focusMode.activeTaskId = Null

startFocusTask(W) ==
  IF NoActiveTask(W.st) THEN W
  ELSE IF ActiveTask(W.st) = 0 \/ ActiveTaskHas(W.st, "active") THEN W
  ELSE updateTask(W, W.st.focusMode.activeTaskId, [status |-> "active", completedAt |-> Null])

completeFocusTask(W) ==
  IF NoActiveTask(W.st) THEN W
  ELSE IF ActiveTask(W.st) = 0 \/ ActiveTaskHas(W.st, "done") THEN W
  ELSE updateTask(W, W.st.focusMode.activeTaskId,
                  [status |-> "done", completedAt |-> Now, manualPinned |-> FALSE])

\* mutant: the spliced id is put back where it was
RotateInPlace(queue, index) == queue

\* queue.splice(index, 1) then queue.push(rotated)
Rotate(queue, index) ==
  SubSeq(queue, 1, index - 1) \o SubSeq(queue, index + 1, Len(queue)) \o <<queue[index]>>

\* mutant: the rotated id stays the active one
SkipFocusPatchKeepsActive(current, queue) ==
  Patch([focusMode |-> [current.focusMode EXCEPT !.queue = queue,
                                               !.activeTaskId = queue[Len(queue)]]], {})

\* lines 461-467: the rotated queue and its front
SkipFocusPatch(current, queue) ==
  Patch([focusMode |-> [current.focusMode EXCEPT !.queue = queue, !.activeTaskId = queue[1]]], {})

\* the updater of lines 443-468
SkipUpdater(current, activeTaskId) ==
  IF ~current.focusMode.enabled \/ Len(current.focusMode.queue) <= 1
       \/ current.focusMode.activeTaskId # activeTaskId
  THEN NullPatch
  ELSE IF IndexOf(current.focusMode.queue, activeTaskId) = 0 THEN NullPatch
  ELSE SkipFocusPatch(current,
         Rotate(current.focusMode.queue, IndexOf(current.focusMode.queue, activeTaskId)))

\* lines 472-477 and 518-523: the task that was active goes back to backlog
Demote(W, wasActive, activeTaskId) ==
  IF wasActive
  THEN updateTask(W, activeTaskId, [status |-> "backlog", completedAt |-> Null])
  ELSE W

skipFocusTask(W) ==
  IF NoActiveTask(W.st) THEN W
  ELSE Demote(SetState(W, SkipUpdater(W.st, W.st.focusMode.activeTaskId), SkipAutoPlan),
              ActiveTaskHas(W.st, "active"), W.st.focusMode.activeTaskId)

\* mutant: no wrap from the last position to the first
NextIndexNoWrap(queue, index) == IF index < Len(queue) THEN index + 1 ELSE index

\* (index + 1) % queue.length, on positions counted from 1
NextIndex(queue, index) == (index % Len(queue)) + 1

\* the updater of lines 495-514
NextUpdater(current, activeTaskId) ==
  IF ~current.focusMode.enabled \/ current.focusMode.activeTaskId # activeTaskId
  THEN NullPatch
  ELSE IF IndexOf(current.focusMode.queue, activeTaskId) = 0 THEN NullPatch
  ELSE Patch([focusMode |-> [current.focusMode EXCEPT !.activeTaskId =
                current.focusMode.queue[NextIndex(current.focusMode.queue,
                                                  IndexOf(current.focusMode.queue, activeTaskId))]]],
             {})

focusNextTask(W) ==
  IF NoActiveTask(W.st) THEN W
  ELSE IF Len(W.st.focusMode.queue) <= 1 THEN W
  ELSE Demote(SetState(W, NextUpdater(W.st, W.st.focusMode.activeTaskId), SkipAutoPlan),
              ActiveTaskHas(W.st, "active"), W.st.focusMode.activeTaskId)

\* ----------------------------------------------------------------- actions
Hit(taskId) == taskId \in TaskIdsOf(state.tasks)

Subscribe ==
  /\ listeners < MaxListeners
  /\ listeners' = listeners + 1
  /\ lastOp' = [name |-> "subscribe", hit |-> TRUE, commits |-> 0, persists |-> 0,
                notified |-> 0, sched |-> 0, threw |-> FALSE, idleCommits |-> 0]
  /\ UNCHANGED <<state, autoPlanCallback, storage, cache, hydration, planVars, callVars>>

Unsubscribe ==
  /\ listeners > 0
  /\ listeners' = listeners - 1
  /\ lastOp' = [name |-> "unsubscribe", hit |-> TRUE, commits |-> 0, persists |-> 0,
                notified |-> 0, sched |-> 0, threw |-> FALSE, idleCommits |-> 0]
  /\ UNCHANGED <<state, autoPlanCallback, storage, cache, hydration, planVars, callVars>>

\* setAutoPlanCallback(callback, { runImmediately })
SetAutoPlanCallback ==
  \E callback \in {"none", "record"}, runImmediately \in BOOLEAN :
    /\ autoPlanCallback' = callback
    /\ lastOp' = [name |-> "setAutoPlanCallback", hit |-> TRUE, commits |-> 0, persists |-> 0,
                  notified |-> 0,
                  sched |-> IF callback # "none" /\ runImmediately /\ state.autoPlanEnabled
                            THEN 1 ELSE 0,
                  threw |-> FALSE, idleCommits |-> 0]
    /\ UNCHANGED <<state, listeners, storage, cache, hydration, planVars, callVars>>

RunAutoPlan ==
  /\ lastOp' = [name |-> "runAutoPlan", hit |-> TRUE, commits |-> 0, persists |-> 0,
                notified |-> 0,
                sched |-> IF autoPlanCallback # "none" /\ state.autoPlanEnabled THEN 1 ELSE 0,
                threw |-> FALSE, idleCommits |-> 0]
  /\ UNCHANGED <<state, listeners, autoPlanCallback, storage, cache, hydration, planVars, callVars>>

SetAutoPlanEnabled ==
  \E enabled \in BOOLEAN :
    Finish("setAutoPlanEnabled", TRUE,
           SetState(Start, Patch([autoPlanEnabled |-> enabled], {}), DefaultOptions))

EnterFocusMode == Finish("enterFocusMode", TRUE, enterFocusMode(Start))

ExitFocusMode == Finish("exitFocusMode", TRUE, exitFocusMode(Start))

SetFocusMode ==
  \E enabled \in BOOLEAN :
    Finish(IF enabled THEN "setFocusMode(true)" ELSE "setFocusMode(false)", TRUE,
           IF enabled THEN enterFocusMode(Start) ELSE exitFocusMode(Start))

ToggleFocusMode == Finish("toggleFocusMode", TRUE, toggleFocusMode(Start))

StartFocusTask == Finish("startFocusTask", TRUE, startFocusTask(Start))

CompleteFocusTask == Finish("completeFocusTask", TRUE, completeFocusTask(Start))

SkipFocusTask == Finish("skipFocusTask", TRUE, skipFocusTask(Start))

FocusNextTask == Finish("focusNextTask", TRUE, focusNextTask(Start))

UpsertTask ==
  \E task \in UpsertInputs :
    /\ Hit(task.id) \/ Len(state.tasks) < MaxTasks
    /\ Finish("upsertTask", Hit(task.id), upsertTask(Start, task))

UpdateTask ==
  \E taskId \in IdPool, patch \in TaskPatches :
    Finish("updateTask", Hit(taskId), updateTask(Start, taskId, patch))

RemoveTask ==
  \E taskId \in IdPool :
    Finish("removeTask", Hit(taskId), removeTask(Start, taskId))

UpdateTaskStatus ==
  \E taskId \in IdPool, status \in StatusInputs :
    Finish("updateTaskStatus", Hit(taskId), updateTaskStatus(Start, taskId, status))

\* updateTaskStatus(taskId, status) as the board calls it during a focus
\* session: a task ticked off, or reopened
ToggleTaskDone ==
  \E taskId \in IdPool, status \in {"backlog", "done"} :
    Finish("updateTaskStatus", Hit(taskId), updateTaskStatus(Start, taskId, status))

\* setTasks(tasks): the array the store holds, or another one
SetTasks ==
  \E same \in BOOLEAN :
    Finish(IF same THEN "setTasks(same)" ELSE "setTasks", TRUE,
           SetState(Start,
                    Patch([tasks |-> IF same THEN state.tasks ELSE <<>>],
                          IF same THEN {"tasks"} ELSE {}),
                    DefaultOptions))

\* createId() gives an id no task has
AddQuickTask ==
  \E id \in (1..MaxTasks) \ TaskIdsOf(state.tasks) :
    /\ Len(state.tasks) < MaxTasks
    /\ Finish("addQuickTask", FALSE,
              upsertTask(Start, [id |-> id, status |-> "backlog", createdAt |-> Now,
                                 manualPinned |-> FALSE]))

UpdateSettings ==
  \E patch \in SettingsPatches :
    Finish("updateSettings", TRUE,
           SetState(Start, Patch([settings |-> Spread(state.settings, patch)], {}),
                    DefaultOptions))

SetSession ==
  \E patch \in SessionPatches :
    Finish("setSession", TRUE,
           SetState(Start, Patch([session |-> Spread(state.session, patch)], {}),
                    SkipAutoPlan))

ClearSession ==
  Finish("clearSession", TRUE,
         SetState(Start, Patch([session |-> createDefaultSession], {}), SkipAutoPlan))

\* reset(): no reconcile, no change test, no Scheduler
ResetStore ==
  LET saved == persistState(cache, createDefaultState)
  IN  /\ state' = createDefaultState
      /\ cache' = saved.cache
      /\ lastOp' = [name |-> "resetStore", hit |-> TRUE, commits |-> 1, persists |-> 1,
                    notified |-> IF saved.threw THEN 0 ELSE listeners, sched |-> 0,
                    threw |-> saved.threw, idleCommits |-> 0]
      /\ UNCHANGED <<listeners, autoPlanCallback, storage, hydration, planVars, callVars>>

\* --------------------------------------------------------------- scheduler
\* autoPlan and capacityForDay ("@/lib/auto-plan") as the specification
\* describes them.  Dates are ticks; a calendar day is named by its first tick;
\* a map (capacityOverrides, weekdayCapacities, the ledger) is a function whose
\* domain holds the keys that are present.
HorizonCeiling == 21

EmptyMap == [k \in {} |-> 0]

Max(a, b) == IF a > b THEN a ELSE b

Min(a, b) == IF a < b THEN a ELSE b

\* weekday index 0..6 of a date
Weekday(date) == (date \div MS_IN_DAY) % 7

DEFAULT_AUTOPLAN_SETTINGS ==
  [dailyCapacityMinutes |-> 240,
   planningHorizonDays  |-> DefaultPlanningHorizonDays,
   capacityOverrides    |-> EmptyMap,
   weekdayCapacities    |-> EmptyMap]

capacityForDay(settings, date) ==
  IF date \in DOMAIN settings.capacityOverrides
  THEN Max(0, settings.capacityOverrides[date])
  ELSE IF Weekday(date) \in DOMAIN settings.weekdayCapacities
  THEN Max(0, settings.weekdayCapacities[Weekday(date)])
  ELSE Max(0, settings.dailyCapacityMinutes)

horizonDays(settings) == Min(HorizonCeiling, Max(1, settings.planningHorizonDays))

\* the days today .. today + horizonDays - 1
HorizonDates(settings, today) ==
  {today + k * MS_IN_DAY : k \in 0..(horizonDays(settings) - 1)}

\* a ledger entry; remaining is recomputed from total and used
Usage(total, used) ==
  [total |-> total, used |-> used, remaining |-> Max(0, total - used)]

\* step 2: the capacity ledger of the horizon
buildLedger(settings, today) ==
  [d \in HorizonDates(settings, today) |-> Usage(capacityForDay(settings, d), 0)]

\* step 1: plannedDate at day granularity
NormalizeTask(t) ==
  IF t.plannedDate = Null THEN t ELSE [t EXCEPT !.plannedDate = startOfDay(@)]

NormalizeTasks(ts) == [i \in 1..Len(ts) |-> NormalizeTask(ts[i])]

\* step 3: the class of a task
\* mutant: a task planned for yesterday does not count as overdue
ClassifyLenient(t, today, dates) ==
  IF t.status \in {"done", "archived"} THEN "finished"
  ELSE IF t.plannedDate # Null /\ t.plannedDate < today - MS_IN_DAY THEN "overdue"
  ELSE IF t.plannedDate = Null
  THEN IF t.status = "backlog" THEN "unscheduled" ELSE "untouched"
  ELSE IF t.plannedDate \in dates THEN "placed"
  ELSE "beyond"

Classify(t, today, dates) ==
  IF t.status \in {"done", "archived"} THEN "finished"
  ELSE IF t.plannedDate # Null /\ t.plannedDate < today THEN "overdue"
  ELSE IF t.plannedDate = Null
  THEN IF t.status = "backlog" THEN "unscheduled" ELSE "untouched"
  ELSE IF t.plannedDate \in dates THEN "placed"
  ELSE "beyond"

\* step 3: what classification changes in the task itself
\* mutant: a finished task loses its pin as well
PreparedUnpinsAll(t, today, dates) ==
  IF Classify(t, today, dates) = "overdue"
  THEN [t EXCEPT !.plannedDate = Null, !.manualPinned = FALSE]
  ELSE IF Classify(t, today, dates) = "finished"
  THEN [t EXCEPT !.atRisk = FALSE, !.manualPinned = FALSE]
  ELSE t

Prepared(t, today, dates) ==
  IF Classify(t, today, dates) = "overdue"
  THEN [t EXCEPT !.plannedDate = Null, !.manualPinned = FALSE]
  ELSE IF Classify(t, today, dates) = "finished"
  THEN [t EXCEPT !.atRisk = FALSE]
  ELSE t

PrepareTasks(ts, today, dates) == [i \in 1..Len(ts) |-> Prepared(ts[i], today, dates)]

\* reserve minutes against a day's entry
Reserve(ledger, day, minutes) ==
  [ledger EXCEPT ![day] = Usage(@.total, @.used + minutes)]

\* step 3: every task already placed within the horizon is a fixed reservation
RECURSIVE ReservePlaced(_, _, _, _)
ReservePlaced(ledger, ts, today, i) ==
  IF i > Len(ts) THEN ledger
  ELSE ReservePlaced(IF Classify(ts[i], today, DOMAIN ledger) = "placed"
                     THEN Reserve(ledger, ts[i].plannedDate, ts[i].durationMinutes)
                     ELSE ledger,
                     ts, today, i + 1)

\* step 4: a sorts before b
\* mutant: tasks that tie on everything but the id are left in input order
QueueBeforeNoTieBreak(a, b) ==
  IF a.dueDate # b.dueDate
  THEN b.dueDate = Null \/ (a.dueDate # Null /\ a.dueDate < b.dueDate)
  ELSE IF a.priority # b.priority THEN a.priority > b.priority
  ELSE IF a.durationMinutes # b.durationMinutes THEN a.durationMinutes > b.durationMinutes
  ELSE IF a.createdAt # b.createdAt THEN a.createdAt < b.createdAt
  ELSE FALSE

QueueBefore(a, b) ==
  IF a.dueDate # b.dueDate
  THEN b.dueDate = Null \/ (a.dueDate # Null /\ a.dueDate < b.dueDate)
  ELSE IF a.priority # b.priority THEN a.priority > b.priority
  ELSE IF a.durationMinutes # b.durationMinutes THEN a.durationMinutes > b.durationMinutes
  ELSE IF a.createdAt # b.createdAt THEN a.createdAt < b.createdAt
  ELSE a.id < b.id

\* the queue holds positions of the task list
RECURSIVE QueueInsert(_, _, _)
QueueInsert(sorted, p, ts) ==
  IF sorted = <<>> THEN <<p>>
  ELSE IF QueueBefore(ts[p], ts[Head(sorted)]) THEN <<p>> \o sorted
  ELSE <<Head(sorted)>> \o QueueInsert(Tail(sorted), p, ts)

\* steps 3 and 4: the sorted reassignment queue
RECURSIVE BuildQueue(_, _, _, _, _)
BuildQueue(ts, today, dates, i, acc) ==
  IF i > Len(ts) THEN acc
  ELSE BuildQueue(ts, today, dates, i + 1,
                  IF Classify(ts[i], today, dates) \in {"overdue", "unscheduled"}
                  THEN QueueInsert(acc, i, ts)
                  ELSE acc)

FitDays(ledger, minutes) == {d \in DOMAIN ledger : ledger[d].remaining >= minutes}

\* mutant: the last day whose remaining covers the duration
LastFit(ledger, minutes) ==
  IF FitDays(ledger, minutes) = {} THEN Null
  ELSE CHOOSE d \in FitDays(ledger, minutes) : \A e \in FitDays(ledger, minutes) : d >= e

\* step 5: the first day whose remaining covers the duration, Null if none
FirstFit(ledger, minutes) ==
  IF FitDays(ledger, minutes) = {} THEN Null
  ELSE CHOOSE d \in FitDays(ledger, minutes) : \A e \in FitDays(ledger, minutes) : d <= e

Assigned(t, day, orderIndex) ==
  [t EXCEPT !.plannedDate = day, !.manualPinned = FALSE,
            !.atRisk = (t.dueDate # Null /\ day > t.dueDate),
            !.orderIndex = orderIndex]

Unplaced(t, orderIndex) ==
  [t EXCEPT !.plannedDate = Null, !.manualPinned = FALSE, !.atRisk = TRUE,
            !.orderIndex = orderIndex]

\* mutant: a task no day has room for is put on the first day of the horizon
PlaceOnForced(P, pos, day, orderIndex) ==
  [tasks  |-> [P.tasks EXCEPT ![pos] = Assigned(@, IF day = Null
                                                  THEN CHOOSE d \in DOMAIN P.ledger :
                                                         \A e \in DOMAIN P.ledger : d <= e
                                                  ELSE day, orderIndex)],
   ledger |-> Reserve(P.ledger,
                      IF day = Null
                      THEN CHOOSE d \in DOMAIN P.ledger : \A e \in DOMAIN P.ledger : d <= e
                      ELSE day,
                      P.tasks[pos].durationMinutes)]

PlaceOn(P, pos, day, orderIndex) ==
  IF day = Null
  THEN [P EXCEPT !.tasks[pos] = Unplaced(@, orderIndex)]
  ELSE [tasks  |-> [P.tasks EXCEPT ![pos] = Assigned(@, day, orderIndex)],
        ledger |-> Reserve(P.ledger, day, P.tasks[pos].durationMinutes)]

PlaceTask(P, pos, today, orderIndex) ==
  IF P.tasks[pos].durationMinutes = 0
  THEN [P EXCEPT !.tasks[pos] = Assigned(@, today, orderIndex)]
  ELSE PlaceOn(P, pos, FirstFit(P.ledger, P.tasks[pos].durationMinutes), orderIndex)

\* step 5: walk the sorted queue
RECURSIVE Walk(_, _, _, _)
Walk(P, queue, today, k) ==
  IF k > Len(queue) THEN P
  ELSE Walk(PlaceTask(P, queue[k], today, k - 1), queue, today, k + 1)

\* step 6: recompute every entry's remaining
NormalizeLedger(ledger) ==
  [d \in DOMAIN ledger |-> Usage(ledger[d].total, ledger[d].used)]

PlanResult(P) == [tasks |-> P.tasks, capacityUsage |-> NormalizeLedger(P.ledger)]

PlanOn(ts, settings, today, dates) ==
  PlanResult(Walk([tasks  |-> PrepareTasks(ts, today, dates),
                   ledger |-> ReservePlaced(buildLedger(settings, today), ts, today, 1)],
                  BuildQueue(ts, today, dates, 1, <<>>), today, 1))

autoPlan(tasks, settings, referenceToday) ==
  PlanOn(NormalizeTasks(tasks), settings, startOfDay(referenceToday),
         HorizonDates(settings, startOfDay(referenceToday)))

\* -------------------------------------------------------------- task store
\* createTaskStore (src/unnamed/part_006)
MergeMap(current, patch) ==
  [k \in DOMAIN current \cup DOMAIN patch |->
     IF k \in DOMAIN patch THEN patch[k] ELSE current[k]]

mergeSettings(current, patch) ==
  [f \in DOMAIN current |->
     IF f \in {"capacityOverrides", "weekdayCapacities"}
     THEN IF f \in DOMAIN patch THEN MergeMap(current[f], patch[f]) ELSE current[f]
     ELSE IF f \in DOMAIN patch THEN patch[f] ELSE current[f]]

mergeTask(task, patch) == Spread(task, patch)

\* today ?? new Date()
ReferenceOf(today) == IF today = Null THEN Now ELSE today

Applied(held, result, reference) ==
  [held EXCEPT !.tasks = result.tasks, !.capacityUsage = result.capacityUsage,
               !.lastPlannedAt = reference]

applyAutoPlan(held, today) ==
  Applied(held, autoPlan(held.tasks, held.settings, ReferenceOf(today)), ReferenceOf(today))

\* the state createTaskStore builds from initialState, before its first plan
InitialHeld(initialState) ==
  [tasks         |-> IF "tasks" \in DOMAIN initialState THEN initialState.tasks ELSE <<>>,
   settings      |-> IF "settings" \in DOMAIN initialState
                     THEN mergeSettings(DEFAULT_AUTOPLAN_SETTINGS, initialState.settings)
                     ELSE DEFAULT_AUTOPLAN_SETTINGS,
   capacityUsage |-> IF "capacityUsage" \in DOMAIN initialState
                     THEN initialState.capacityUsage ELSE EmptyMap,
   lastPlannedAt |-> initialState.lastPlannedAt]

createTaskStore(initialState) ==
  applyAutoPlan(InitialHeld(initialState), initialState.lastPlannedAt)

\* a task as a caller hands it to the store
PlannedTask(id, status, priority, durationMinutes, dueDate, plannedDate, manualPinned, atRisk) ==
  [id |-> id, status |-> status, priority |-> priority,
   durationMinutes |-> durationMinutes, dueDate |-> dueDate,
   plannedDate |-> plannedDate, manualPinned |-> manualPinned,
   createdAt |-> 1, orderIndex |-> Null, atRisk |-> atRisk]

Today == startOfDay(Now)

\* the tasks a caller adds
PlanTaskInputs ==
  {PlannedTask(id, "backlog", 0, 200, Null, Null, FALSE, FALSE) : id \in 1..PlanTasks}
  \cup {PlannedTask(id, "backlog", 2, 500, Null, Now, TRUE, FALSE) : id \in 1..PlanTasks}

\* the ids callers pass: those tasks may have, and one no task has
PlanIdPool == 1..(PlanTasks + 1)

\* callers add a task under an id the store does not hold yet
FreshTasks(held) == {t \in PlanTaskInputs : FindIndex(held, t.id) = 0}

\* the patches a caller applies to a task
PlanTaskPatches ==
  {[status |-> "done"]}

\* the lists a caller loads
LoadInputs ==
  {<<>>,
   [i \in 1..PlanTasks |-> PlannedTask(i, "backlog", 0, 200, Null, Null, FALSE, FALSE)]}

\* the settings a caller patches
PlanSettingsPatches ==
  {[dailyCapacityMinutes |-> 100, planningHorizonDays |-> 22],
   [capacityOverrides |-> (Today :> (0 - 60)),
    weekdayCapacities |-> (Weekday(Today + MS_IN_DAY) :> 300)]}

\* the today argument: left out, or tomorrow
References == {Null, Now + MS_IN_DAY}

\* lines 53-58: a copy of what the store holds, as notify and subscribe hand it out
createSnapshot(held) ==
  [tasks         |-> held.tasks,
   settings      |-> held.settings,
   capacityUsage |-> held.capacityUsage,
   lastPlannedAt |-> held.lastPlannedAt]

\* mutant: the listeners are called before the plan is applied
ReplanNotifiesFirst(name, id, held, today) ==
  /\ taskStore' = applyAutoPlan(held, today)
  /\ planOp' = [name |-> name, id |-> id, hit |-> TRUE, planned |-> 1,
                notified |-> taskStoreListeners, today |-> today,
                snapshot |-> createSnapshot(held)]
  /\ UNCHANGED <<taskStoreListeners, storeVars, callVars>>

\* state = { ...state, ... }; applyAutoPlan(today); notify()
Replan(name, id, held, today) ==
  /\ taskStore' = applyAutoPlan(held, today)
  /\ planOp' = [name |-> name, id |-> id, hit |-> TRUE, planned |-> 1,
                notified |-> taskStoreListeners, today |-> today,
                snapshot |-> createSnapshot(taskStore')]
  /\ UNCHANGED <<taskStoreListeners, storeVars, callVars>>

\* an early return
Ignored(name, id) ==
  /\ planOp' = [name |-> name, id |-> id, hit |-> FALSE, planned |-> 0, notified |-> 0,
                today |-> Null, snapshot |-> createSnapshot(taskStore)]
  /\ UNCHANGED <<taskStore, taskStoreListeners, storeVars, callVars>>

TaskStoreSubscribe ==
  /\ taskStoreListeners < MaxListeners
  /\ taskStoreListeners' = taskStoreListeners + 1
  /\ planOp' = [name |-> "subscribe", id |-> Null, hit |-> TRUE, planned |-> 0, notified |-> 1,
                today |-> Null, snapshot |-> createSnapshot(taskStore)]
  /\ UNCHANGED <<taskStore, storeVars, callVars>>

TaskStoreUnsubscribe ==
  /\ taskStoreListeners > 0
  /\ taskStoreListeners' = taskStoreListeners - 1
  /\ planOp' = [name |-> "unsubscribe", id |-> Null, hit |-> TRUE, planned |-> 0,
                notified |-> 0, today |-> Null, snapshot |-> createSnapshot(taskStore)]
  /\ UNCHANGED <<taskStore, storeVars, callVars>>

TaskStoreLoadTasks ==
  \E tasks \in LoadInputs, today \in References :
    Replan("loadTasks", Null, [taskStore EXCEPT !.tasks = tasks], today)

TaskStoreAddTask ==
  /\ Len(taskStore.tasks) < PlanTasks
  /\ \E task \in FreshTasks(taskStore.tasks), today \in References :
       Replan("addTask", task.id, [taskStore EXCEPT !.tasks = Append(@, task)], today)

TaskStoreUpdateTask ==
  \E id \in PlanIdPool, patch \in PlanTaskPatches, today \in References :
    IF FindIndex(taskStore.tasks, id) = 0
    THEN Ignored("updateTask", id)
    ELSE Replan("updateTask", id,
                [taskStore EXCEPT !.tasks[FindIndex(taskStore.tasks, id)] = mergeTask(@, patch)],
                today)

\* mutant: no early return when nothing was filtered out
TaskStoreRemoveTaskUnguarded ==
  \E id \in PlanIdPool, today \in References :
    Replan("removeTask", id,
           [taskStore EXCEPT !.tasks = SelectSeq(@, LAMBDA t : t.id # id)],
           today)

TaskStoreRemoveTask ==
  \E id \in PlanIdPool, today \in References :
    IF FindIndex(taskStore.tasks, id) = 0
    THEN Ignored("removeTask", id)
    ELSE Replan("removeTask", id,
                [taskStore EXCEPT !.tasks = SelectSeq(@, LAMBDA t : t.id # id)],
                today)

TaskStoreSetSettings ==
  \E settings \in PlanSettingsPatches, today \in References :
    Replan("setSettings", Null, [taskStore EXCEPT !.settings = mergeSettings(@, settings)], today)

\* mutant: a re-plan forgets every earlier placement first
TaskStoreAutoPlanFromScratch ==
  \E today \in References :
    Replan("autoPlan", Null,
           [taskStore EXCEPT !.tasks = [i \in 1..Len(@) |-> [@[i] EXCEPT !.plannedDate = Null]]],
           today)

TaskStoreAutoPlan ==
  \E today \in References : Replan("autoPlan", Null, taskStore, today)

\* the task store as the momentum store's specifications leave it: just built
IdleTaskStore ==
  /\ taskStore = createTaskStore([lastPlannedAt |-> Null])
  /\ taskStoreListeners = 0
  /\ planOp = [name |-> "createTaskStore", id |-> Null, hit |-> TRUE, planned |-> 1,
              notified |-> 0, today |-> Null, snapshot |-> createSnapshot(taskStore)]

\* ------------------------------------------------------------ specification
\* a snapshot an earlier session of another day left: focus mode on, a stale queue
StaleSnapshot ==
  [tasks           |-> <<[NewTask(1, 1) EXCEPT !.plannedDate = 2, !.status = "active"]>>,
   settings        |-> DEFAULT_USER_SETTINGS,
   focusMode       |-> [enabled |-> TRUE, activeTaskId |-> 2, queue |-> <<2, 1, 2>>],
   autoPlanEnabled |-> FALSE,
   session         |-> createDefaultSession]

InitBlobs == {AbsentBlob, MalformedBlob, SnapshotBlob(StaleSnapshot)}

Init ==
  /\ cache \in InitBlobs
  /\ state = hydrateState(cache)
  /\ listeners = 0
  /\ autoPlanCallback = "none"
  /\ storage = "ok"
  /\ lastOp = [name |-> "hydrateState", hit |-> TRUE, commits |-> 0, persists |-> 0,
               notified |-> 0, sched |-> 0, threw |-> FALSE, idleCommits |-> 0]
  /\ hydration = HydrationOutcome(cache)
  /\ IdleCalls
  /\ IdleTaskStore

Next ==
  \/ Subscribe
  \/ Unsubscribe
  \/ SetAutoPlanCallback
  \/ RunAutoPlan
  \/ SetAutoPlanEnabled
  \/ EnterFocusMode
  \/ ExitFocusMode
  \/ SetFocusMode
  \/ ToggleFocusMode
  \/ StartFocusTask
  \/ CompleteFocusTask
  \/ SkipFocusTask
  \/ FocusNextTask
  \/ UpsertTask
  \/ UpdateTask
  \/ RemoveTask
  \/ UpdateTaskStatus
  \/ SetTasks
  \/ AddQuickTask
  \/ UpdateSettings
  \/ SetSession
  \/ ClearSession
  \/ ResetStore

Spec == Init /\ [][Next]_vars

\* A focus session: the store hydrates from a snapshot holding FocusTasks tasks
\* planned for today; one listener, a Scheduler callback registered, storage working.
FocusSnapshotTasks ==
  [i \in 1..FocusTasks |->
     [NewTask(i, 1) EXCEPT !.plannedDate = IF i % 2 = 0 THEN 2 ELSE Now]]

FocusSnapshot(focusMode) ==
  [tasks           |-> FocusSnapshotTasks,
   settings        |-> DEFAULT_USER_SETTINGS,
   focusMode       |-> focusMode,
   autoPlanEnabled |-> TRUE,
   session         |-> createDefaultSession]

FocusBlobs ==
  {SnapshotBlob(FocusSnapshot(fm)) :
     fm \in {[enabled |-> FALSE, activeTaskId |-> Null, queue |-> <<>>],
             [enabled |-> TRUE, activeTaskId |-> 1, queue |-> <<FocusTasks + 1, 1, 1>>]}}

InitFocus ==
  /\ cache \in FocusBlobs
  /\ state = hydrateState(cache)
  /\ listeners = 1
  /\ autoPlanCallback = "record"
  /\ storage = "ok"
  /\ lastOp = [name |-> "hydrateState", hit |-> TRUE, commits |-> 0, persists |-> 0,
               notified |-> 0, sched |-> 0, threw |-> FALSE, idleCommits |-> 0]
  /\ hydration = HydrationOutcome(cache)
  /\ IdleCalls
  /\ IdleTaskStore

NextFocus ==
  \/ EnterFocusMode
  \/ ExitFocusMode
  \/ SetFocusMode
  \/ ToggleFocusMode
  \/ StartFocusTask
  \/ CompleteFocusTask
  \/ SkipFocusTask
  \/ FocusNextTask
  \/ RemoveTask
  \/ ToggleTaskDone
  \/ ResetStore

SpecFocus == InitFocus /\ [][NextFocus]_vars

\* The cache boundary: storage working, full or absent, listeners coming and going.
InitCache ==
  /\ cache = AbsentBlob
  /\ state = hydrateState(cache)
  /\ listeners = 0
  /\ autoPlanCallback = "none"
  /\ storage \in {"ok", "quota", "none"}
  /\ lastOp = [name |-> "hydrateState", hit |-> TRUE, commits |-> 0, persists |-> 0,
               notified |-> 0, sched |-> 0, threw |-> FALSE, idleCommits |-> 0]
  /\ hydration = HydrationOutcome(cache)
  /\ IdleCalls
  /\ IdleTaskStore

NextCache ==
  \/ Subscribe
  \/ Unsubscribe
  \/ AddQuickTask
  \/ UpdateTask
  \/ RemoveTask
  \/ EnterFocusMode
  \/ ExitFocusMode
  \/ CompleteFocusTask
  \/ SetSession
  \/ ClearSession
  \/ ResetStore

SpecCache == InitCache /\ [][NextCache]_vars

\* The scheduler store on its own: built from an initial state, then driven
\* through its whole interface; the momentum store stays as first loaded.
InitialStates ==
  {[lastPlannedAt |-> Null],
   [lastPlannedAt |-> Now + MS_IN_DAY,
    settings      |-> [planningHorizonDays |-> 0]]}

InitPlan ==
  /\ cache = AbsentBlob
  /\ state = hydrateState(cache)
  /\ listeners = 0
  /\ autoPlanCallback = "none"
  /\ storage = "ok"
  /\ lastOp = [name |-> "hydrateState", hit |-> TRUE, commits |-> 0, persists |-> 0,
               notified |-> 0, sched |-> 0, threw |-> FALSE, idleCommits |-> 0]
  /\ hydration = HydrationOutcome(cache)
  /\ IdleCalls
  /\ \E initialState \in InitialStates : taskStore = createTaskStore(initialState)
  /\ taskStoreListeners = 0
  /\ planOp = [name |-> "createTaskStore", id |-> Null, hit |-> TRUE, planned |-> 1,
              notified |-> 0, today |-> Null, snapshot |-> createSnapshot(taskStore)]

NextPlan ==
  \/ TaskStoreSubscribe
  \/ TaskStoreUnsubscribe
  \/ TaskStoreLoadTasks
  \/ TaskStoreAddTask
  \/ TaskStoreUpdateTask
  \/ TaskStoreRemoveTask
  \/ TaskStoreSetSettings
  \/ TaskStoreAutoPlan

SpecPlan == InitPlan /\ [][NextPlan]_vars

\* The scheduler on its own: createTaskStore stopped between building its state
\* (line 91) and its first applyAutoPlan (line 116), over many task lists and
\* settings; then the plan is applied, and applied again to its own output.
AutoTaskShapes(id) ==
  {PlannedTask(id, "backlog", 0, 200, Null, Null, FALSE, FALSE),
   [PlannedTask(id, "backlog", 0, 200, Null, Null, FALSE, FALSE) EXCEPT !.createdAt = 2],
   PlannedTask(id, "backlog", 3, 120, Today + 2 * MS_IN_DAY, Null, FALSE, FALSE),
   PlannedTask(id, "backlog", 2, 500, Null, Now, TRUE, FALSE),
   PlannedTask(id, "active", 1, 120, Today, Today - MS_IN_DAY, TRUE, FALSE),
   PlannedTask(id, "done", 1, 120, Null, Now, FALSE, TRUE),
   PlannedTask(id, "archived", 1, 120, Null, Today - MS_IN_DAY, TRUE, TRUE),
   PlannedTask(id, "backlog", 1, 120, Null, Today + 30 * MS_IN_DAY, FALSE, FALSE),
   PlannedTask(id, "backlog", 0, 500, Null, Null, FALSE, FALSE),
   PlannedTask(id, "backlog", 0, 0, Today - MS_IN_DAY, Null, FALSE, FALSE)}

\* the task lists of up to AutoTasks tasks, the task at position i having id i
AutoTaskLists ==
  UNION {{ts \in [1..n -> UNION {AutoTaskShapes(i) : i \in 1..AutoTasks}] :
            \A i \in 1..n : ts[i].id = i} : n \in 0..AutoTasks}

AutoSettings ==
  {[dailyCapacityMinutes |-> 240],
   [dailyCapacityMinutes |-> 100, planningHorizonDays |-> 22],
   [capacityOverrides |-> (Today :> (0 - 60)),
    weekdayCapacities |-> (Weekday(Today + MS_IN_DAY) :> 300)]}

AutoInitialStates ==
  {[lastPlannedAt |-> Null, tasks |-> ts, settings |-> settings] :
     ts \in AutoTaskLists, settings \in AutoSettings}

\* line 116: applyAutoPlan(state.lastPlannedAt ?? undefined)
TaskStoreConstruct ==
  /\ planOp.name = "initialState"
  /\ taskStore' = applyAutoPlan(taskStore, taskStore.lastPlannedAt)
  /\ planOp' = [name |-> "createTaskStore", id |-> Null, hit |-> TRUE, planned |-> 1,
                notified |-> 0, today |-> taskStore.lastPlannedAt,
                snapshot |-> createSnapshot(taskStore')]
  /\ UNCHANGED <<taskStoreListeners, storeVars, callVars>>

InitAuto ==
  /\ cache = AbsentBlob
  /\ state = hydrateState(cache)
  /\ listeners = 0
  /\ autoPlanCallback = "none"
  /\ storage = "ok"
  /\ lastOp = [name |-> "hydrateState", hit |-> TRUE, commits |-> 0, persists |-> 0,
               notified |-> 0, sched |-> 0, threw |-> FALSE, idleCommits |-> 0]
  /\ hydration = HydrationOutcome(cache)
  /\ IdleCalls
  /\ \E initialState \in AutoInitialStates : taskStore = InitialHeld(initialState)
  /\ taskStoreListeners = 0
  /\ planOp = [name |-> "initialState", id |-> Null, hit |-> TRUE, planned |-> 0,
               notified |-> 0, today |-> Null, snapshot |-> createSnapshot(taskStore)]

NextAuto ==
  \/ TaskStoreConstruct
  \/ planOp.name # "initialState" /\ TaskStoreAutoPlan

SpecAuto == InitAuto /\ [][NextAuto]_vars

\* Task identity: the store hydrates from a snapshot of IdTasks tasks planned for
\* today, and callers hand it ids that exist, ids that do not, and patches that
\* carry the id of another task. createId() is a random string: it may repeat an
\* id the store already holds.
IdsPool == 1..(IdTasks + 1)

IdsSnapshot ==
  [tasks           |-> [i \in 1..IdTasks |-> [NewTask(i, Now) EXCEPT !.plannedDate = Now]],
   settings        |-> DEFAULT_USER_SETTINGS,
   focusMode       |-> [enabled |-> FALSE, activeTaskId |-> Null, queue |-> <<>>],
   autoPlanEnabled |-> TRUE,
   session         |-> createDefaultSession]

\* the patches of updateTask that carry an id of their own
IdPatches == {[id |-> other, status |-> "done"] : other \in IdsPool}

AddQuickTaskAnyId ==
  \E id \in IdsPool :
    /\ Hit(id) \/ Len(state.tasks) <= IdTasks
    /\ Finish("addQuickTask", Hit(id),
              upsertTask(Start, [id |-> id, status |-> "backlog", createdAt |-> Now,
                                 manualPinned |-> FALSE]))

UpsertAnyTask ==
  \E id \in IdsPool :
    /\ Hit(id) \/ Len(state.tasks) <= IdTasks
    /\ Finish("upsertTask", Hit(id),
              upsertTask(Start, [id |-> id, status |-> "backlog", createdAt |-> Now]))

UpdateTaskWithId ==
  \E taskId \in IdsPool, patch \in IdPatches :
    Finish("updateTask", Hit(taskId), updateTask(Start, taskId, patch))

MarkTaskDone ==
  \E taskId \in IdsPool :
    Finish("updateTaskStatus", Hit(taskId), updateTaskStatus(Start, taskId, "done"))

RemoveAnyTask ==
  \E taskId \in IdsPool :
    Finish("removeTask", Hit(taskId), removeTask(Start, taskId))

InitIds ==
  /\ cache = SnapshotBlob(IdsSnapshot)
  /\ state = hydrateState(cache)
  /\ listeners = 0
  /\ autoPlanCallback = "none"
  /\ storage = "ok"
  /\ lastOp = [name |-> "hydrateState", hit |-> TRUE, commits |-> 0, persists |-> 0,
               notified |-> 0, sched |-> 0, threw |-> FALSE, idleCommits |-> 0]
  /\ hydration = HydrationOutcome(cache)
  /\ IdleCalls
  /\ IdleTaskStore

NextIds ==
  \/ AddQuickTaskAnyId
  \/ UpsertAnyTask
  \/ UpdateTaskWithId
  \/ MarkTaskDone
  \/ RemoveAnyTask
  \/ EnterFocusMode
  \/ CompleteFocusTask

SpecIds == InitIds /\ [][NextIds]_vars

\* Module initialisation over every kind of cached blob; the store is driven on
\* only where hydration left a well-formed state.
HydrateBlobs ==
  {AbsentBlob, MalformedBlob, SnapshotBlob(StaleSnapshot),
   WrongShapeBlob([enabled |-> FALSE, activeTaskId |-> Null, queue |-> <<>>]),
   WrongShapeBlob([enabled |-> TRUE, activeTaskId |-> Null, queue |-> <<>>])}

InitHydrate ==
  /\ cache \in HydrateBlobs
  /\ state = hydrateState(cache)
  /\ listeners = 0
  /\ autoPlanCallback = "none"
  /\ storage = "ok"
  /\ lastOp = [name |-> "hydrateState", hit |-> TRUE, commits |-> 0, persists |-> 0,
               notified |-> 0, sched |-> 0, threw |-> HydrationOutcome(cache) = "threw",
               idleCommits |-> 0]
  /\ hydration = HydrationOutcome(cache)
  /\ IdleCalls
  /\ IdleTaskStore

NextHydrate ==
  \/ hydration = "ok" /\ Subscribe
  \/ hydration = "ok" /\ Unsubscribe
  \/ hydration = "ok" /\ AddQuickTask
  \/ hydration = "ok" /\ UpdateTask
  \/ hydration = "ok" /\ EnterFocusMode
  \/ hydration = "ok" /\ ExitFocusMode
  \/ hydration = "ok" /\ CompleteFocusTask
  \/ hydration = "ok" /\ ResetStore

SpecHydrate == InitHydrate /\ [][NextHydrate]_vars

\* ------------------------------------------------- setState, step by step
\* One activation of setState (lines 270-310) is followed statement by statement:
\* the held state replaced (302), the cache written (304-306), the listeners
\* called one after another (308, 241-243), maybeRunAutoPlan (309, 245-268).
\* A listener is any function: it may read the store, and it may call a mutation
\* from inside the notification, which runs to its end before the listener
\* returns.  The Scheduler callback is not in the repository's store module; it is
\* modelled as the specification describes it: it plans the tasks of the state it
\* is handed and merges the planned tasks back with a setState of its own.

\* an activation that passed the change test; pc is the statement it is about to run
Frame(op, previous, next, patch, options) ==
  [op |-> op, previous |-> previous, next |-> next, patch |-> patch, options |-> options,
   pc |-> "replace", pending |-> 0]

\* lines 290-296
Changed(previous, next, patch) ==
  \/ focusModeChanged(previous, next)
  \/ \E key \in DOMAIN patch.value : RefDiffers(previous, next, patch, key)

\* lines 274-300: nothing is left to run when the patch is null or nothing changed
Activation(op, patch, options) ==
  IF patch.isNull THEN <<>>
  ELSE IF Changed(state, Reconciled(state, Spread(state, patch.value)), patch)
  THEN <<Frame(op, state, Reconciled(state, Spread(state, patch.value)), patch, options)>>
  ELSE <<>>

Top == calls[Len(calls)]

\* mutant: maybeRunAutoPlan runs before notify
StageAfterSchedulesFirst(pc) ==
  IF pc = "replace" THEN "persist"
  ELSE IF pc = "persist" THEN "schedule"
  ELSE IF pc = "schedule" THEN "notify"
  ELSE "return"

\* the order of lines 302-309
StageAfter(pc) ==
  IF pc = "replace" THEN "persist"
  ELSE IF pc = "persist" THEN "notify"
  ELSE IF pc = "notify" THEN "schedule"
  ELSE "return"

\* the stack once the innermost activation goes on to stage, or returns
Moved(stage) ==
  IF stage = "return" THEN [k \in 1..(Len(calls) - 1) |-> calls[k]]
  ELSE [calls EXCEPT ![Len(calls)].pc = stage,
                     ![Len(calls)].pending = IF stage = "notify" THEN listeners ELSE 0]

\* an entry of events: what happened, in which activation, the state the store
\* held at that moment (what getState() returns) and the state the step worked on
Logged(kind, held, arg) ==
  Append(events, [kind |-> kind, depth |-> Len(calls), op |-> Top.op,
                  held |-> held, arg |-> arg])

\* the Scheduler's plan for tasks as quick-add makes them (backlog, no due date,
\* few enough to fit one day): every unplanned one is placed on today, unpinned
schedulerPlan(ts) ==
  [k \in 1..Len(ts) |->
     IF ts[k].status = "backlog" /\ ts[k].plannedDate = Null
     THEN [ts[k] EXCEPT !.plannedDate = Today, !.manualPinned = FALSE]
     ELSE ts[k]]

\* the Scheduler's output for the snapshot it was handed, as a patch
schedulerMerge(snapshot) == Patch([tasks |-> schedulerPlan(snapshot.tasks)], {})

\* the merge is a setState call with the Scheduler suppressed
MergeOptions == SkipAutoPlan

\* line 266: autoPlanCallback(next)
callbackArgument(frame) == frame.next

\* a stack deeper than any run builds: the caller's activation and its merge, a
\* listener's activation and its merge
MaxCalls == 2 * (CallTasks + 1)

ListenerCalls == Cardinality({k \in 1..Len(calls) : calls[k].op = "listener"})

\* a caller outside the store calls a mutation
CallerMutates(op, patch, options) ==
  /\ calls = <<>>
  /\ calls' = Activation(op, patch, options)
  /\ events' = <<>>
  /\ lastOp' = [name |-> op, hit |-> TRUE, commits |-> 0, persists |-> 0, notified |-> 0,
                sched |-> 0, threw |-> FALSE, idleCommits |-> 0]
  /\ UNCHANGED <<state, listeners, autoPlanCallback, storage, cache, hydration, planVars>>

\* createId() gives an id no task has: here the next number
CallAddQuickTask ==
  /\ Len(state.tasks) < CallTasks
  /\ CallerMutates("addQuickTask",
       UpsertPatch(state, 0, [id |-> Len(state.tasks) + 1, status |-> "backlog",
                              createdAt |-> Now, manualPinned |-> FALSE]),
       DefaultOptions)

CallEnterFocusMode ==
  CallerMutates("enterFocusMode",
    Patch([focusMode |-> createFocusModeState([state.focusMode EXCEPT !.enabled = TRUE])], {}),
    SkipAutoPlan)

CallSetAutoPlanEnabled ==
  \E enabled \in BOOLEAN :
    CallerMutates("setAutoPlanEnabled", Patch([autoPlanEnabled |-> enabled], {}),
                  DefaultOptions)

\* line 302: state = next
SetStateReplace ==
  /\ calls # <<>> /\ Top.pc = "replace"
  /\ state' = Top.next
  /\ events' = Logged("replace", Top.next, Top.next)
  /\ calls' = Moved(StageAfter("replace"))
  /\ lastOp' = [lastOp EXCEPT !.commits = @ + 1]
  /\ UNCHANGED <<listeners, autoPlanCallback, storage, cache, hydration, planVars>>

\* lines 304-306: persistState(next) unless persist is false
SetStatePersist ==
  /\ calls # <<>> /\ Top.pc = "persist"
  /\ cache' = IF Top.options.persist THEN persistState(cache, Top.next).cache ELSE cache
  /\ events' = IF Top.options.persist THEN Logged("persist", state, Top.next) ELSE events
  /\ calls' = Moved(StageAfter("persist"))
  /\ lastOp' = [lastOp EXCEPT !.persists = @ + (IF Top.options.persist THEN 1 ELSE 0)]
  /\ UNCHANGED <<state, listeners, autoPlanCallback, storage, hydration, planVars>>

\* line 242: the next listener is called
NotifyListener ==
  /\ calls # <<>> /\ Top.pc = "notify" /\ Top.pending > 0
  /\ events' = Logged("notify", state, Top.next)
  /\ calls' = [calls EXCEPT ![Len(calls)].pc = "listener", ![Len(calls)].pending = @ - 1]
  /\ lastOp' = [lastOp EXCEPT !.notified = @ + 1]
  /\ UNCHANGED <<state, listeners, autoPlanCallback, storage, cache, hydration, planVars>>

\* the listener that is running adds a task to the store, unless it was called
\* for a mutation of a listener
ListenerMutates ==
  /\ calls # <<>> /\ Top.pc = "listener"
  /\ ListenerCalls = 0
  /\ Len(state.tasks) < CallTasks
  /\ calls' = calls \o Activation("listener",
                UpsertPatch(state, 0, [id |-> Len(state.tasks) + 1, status |-> "backlog",
                                       createdAt |-> Now, manualPinned |-> FALSE]),
                DefaultOptions)
  /\ UNCHANGED <<state, listeners, autoPlanCallback, storage, cache, lastOp, hydration,
                 planVars, events>>

\* the listener that is running returns
ListenerReturns ==
  /\ calls # <<>> /\ Top.pc = "listener"
  /\ calls' = [calls EXCEPT ![Len(calls)].pc = "notify"]
  /\ UNCHANGED <<state, listeners, autoPlanCallback, storage, cache, lastOp, hydration,
                 planVars, events>>

\* forEach has called every listener
NotifyDone ==
  /\ calls # <<>> /\ Top.pc = "notify" /\ Top.pending = 0
  /\ calls' = Moved(StageAfter("notify"))
  /\ UNCHANGED <<state, listeners, autoPlanCallback, storage, cache, lastOp, hydration,
                 planVars, events>>

\* line 309: maybeRunAutoPlan(previous, next, patch, options)
SetStateSchedule ==
  /\ calls # <<>> /\ Top.pc = "schedule"
  /\ IF maybeRunAutoPlan(World(state, cache), Top.previous, Top.next, Top.patch,
                         Top.options).eff.sched = 1
     THEN /\ events' = Logged("schedule", state, callbackArgument(Top))
          /\ calls' = [calls EXCEPT ![Len(calls)].pc = "callback"]
          /\ lastOp' = [lastOp EXCEPT !.sched = @ + 1]
     ELSE /\ calls' = Moved(StageAfter("schedule"))
          /\ UNCHANGED <<events, lastOp>>
  /\ UNCHANGED <<state, listeners, autoPlanCallback, storage, cache, hydration, planVars>>

\* the callback merges the plan of the state it was handed
CallbackMerges ==
  /\ calls # <<>> /\ Top.pc = "callback"
  /\ Len(calls) < MaxCalls
  /\ calls' = [calls EXCEPT ![Len(calls)].pc = "called"]
                \o Activation("mergePlan",
                              schedulerMerge(events[Len(events)].arg), MergeOptions)
  /\ UNCHANGED <<state, listeners, autoPlanCallback, storage, cache, lastOp, hydration,
                 planVars, events>>

\* the callback returns, and maybeRunAutoPlan with it
CallbackReturns ==
  /\ calls # <<>> /\ Top.pc = "called"
  /\ calls' = Moved(StageAfter("schedule"))
  /\ UNCHANGED <<state, listeners, autoPlanCallback, storage, cache, lastOp, hydration,
                 planVars, events>>

InitCalls ==
  /\ cache = AbsentBlob
  /\ state = hydrateState(cache)
  /\ listeners = MaxListeners
  /\ autoPlanCallback = "merge"
  /\ storage = "ok"
  /\ lastOp = [name |-> "hydrateState", hit |-> TRUE, commits |-> 0, persists |-> 0,
               notified |-> 0, sched |-> 0, threw |-> FALSE, idleCommits |-> 0]
  /\ hydration = HydrationOutcome(cache)
  /\ IdleCalls
  /\ IdleTaskStore

\* what a call in progress does next, whoever is waiting for it
RunsOn ==
  \/ SetStateReplace
  \/ SetStatePersist
  \/ NotifyListener
  \/ ListenerReturns
  \/ NotifyDone
  \/ SetStateSchedule
  \/ CallbackReturns

RunToCompletion == RunsOn \/ CallbackMerges

\* the Scheduler callback has been called and has not merged yet
AtCallback == calls # <<>> /\ Top.pc = "callback"

NextCalls ==
  \/ CallAddQuickTask
  \/ CallEnterFocusMode
  \/ CallSetAutoPlanEnabled
  \/ ListenerMutates
  \/ RunToCompletion

SpecCalls == InitCalls /\ [][NextCalls]_vars

\* JavaScript runs a call to its end: a statement that can run does run.  The
\* last conjunct is weak fairness of CallbackMerges, its enabling condition
\* written out.
SpecCallsFair ==
  /\ SpecCalls
  /\ WF_vars(RunsOn)
  /\ ([]<>(~AtCallback) \/ []<><<CallbackMerges>>_vars)

\* ------------------------------------------------------------------ claims
NoFocus == [enabled |-> FALSE, activeTaskId |-> Null, queue |-> <<>>]

\* C1: focus mode disabled means no active task and an empty queue; enabled, the
\* active task id is null exactly when the queue is empty and else is in the queue.
C1_FocusInvariant ==
  LET fm == state.focusMode
  IN  /\ ~fm.enabled => fm.activeTaskId = Null /\ fm.queue = <<>>
      /\ fm.enabled => /\ (fm.activeTaskId = Null) <=> (fm.queue = <<>>)
                       /\ fm.activeTaskId # Null => fm.activeTaskId \in Range(fm.queue)

\* a task was removed while focus mode was on and two tasks remain queued
C1_Witness ==
  /\ lastOp.name = "removeTask" /\ lastOp.hit
  /\ state.focusMode.enabled
  /\ Len(state.focusMode.queue) >= 2

\* C2: a mutation whose next state equals the previous one in every field commits
\* nothing (and so writes nothing and notifies nobody).
C2_IdleMutationCommitsNothing == lastOp.idleCommits = 0

\* C3: updateTask, removeTask and updateTaskStatus with an id no task has change
\* nothing, persist nothing, notify nobody, do not call the Scheduler, throw nothing.
C3_MissingIdIsNoOp ==
  (lastOp.name \in {"updateTask", "removeTask", "updateTaskStatus"} /\ ~lastOp.hit)
    => /\ lastOp.commits = 0
       /\ lastOp.persists = 0
       /\ lastOp.notified = 0
       /\ lastOp.sched = 0
       /\ ~lastOp.threw

\* C4: with focus mode on and at most one queue entry, skipFocusTask and
\* focusNextTask leave the whole state as it was and notify nobody.
C4_ShortQueueIsNoOp ==
  [][(/\ lastOp'.name \in {"skipFocusTask", "focusNextTask"}
      /\ state.focusMode.enabled
      /\ Len(state.focusMode.queue) <= 1)
       => (state' = state /\ lastOp'.commits = 0 /\ lastOp'.notified = 0)]_vars

\* C5: after every autoPlan run the ledger holds an entry for each day of the
\* planning horizon, and each entry has used <= total and
\* remaining = max(0, total - used).
C5_LedgerWithinCapacity ==
  \A d \in HorizonDates(taskStore.settings, startOfDay(taskStore.lastPlannedAt)) :
    /\ d \in DOMAIN taskStore.capacityUsage
    /\ taskStore.capacityUsage[d].used <= taskStore.capacityUsage[d].total
    /\ taskStore.capacityUsage[d].remaining =
         Max(0, taskStore.capacityUsage[d].total - taskStore.capacityUsage[d].used)

\* C6: a task is done exactly when its completedAt is set.
C6_CompletedAtConsistent ==
  \A i \in 1..Len(state.tasks) :
    (state.tasks[i].status = "done") <=> (state.tasks[i].completedAt # Null)

\* C7: with two or more queue entries skipFocusTask moves the active id to the end
\* of the queue, keeps the order of the others, makes the new front active, and puts
\* the skipped task back to backlog when it was active and leaves its status otherwise.
C7_SkipRotates ==
  [][(/\ lastOp'.name = "skipFocusTask"
      /\ state.focusMode.enabled
      /\ Len(state.focusMode.queue) >= 2)
       => LET q == state.focusMode.queue
              a == state.focusMode.activeTaskId
          IN  /\ state'.focusMode.queue = SelectSeq(q, LAMBDA x : x # a) \o <<a>>
              /\ state'.focusMode.activeTaskId = state'.focusMode.queue[1]
              /\ Len(state'.tasks) = Len(state.tasks)
              /\ \A j \in 1..Len(state.tasks) :
                   state.tasks[j].id = a =>
                     state'.tasks[j].status =
                       IF state.tasks[j].status = "active" THEN "backlog"
                       ELSE state.tasks[j].status]_vars

\* a skip that rotated a queue of three and demoted the skipped task
C7_Witness ==
  /\ lastOp.name = "skipFocusTask" /\ lastOp.commits = 2
  /\ Len(state.focusMode.queue) >= 3
  /\ \E j \in 1..Len(state.tasks) :
       /\ state.tasks[j].id = state.focusMode.queue[Len(state.focusMode.queue)]
       /\ state.tasks[j].status = "backlog"

\* C8 as stated: after skipFocusTask the active task is the one that followed the
\* skipped task in the queue (the first one when the skipped task was last).
C8_NextInQueueBecomesActive ==
  [][(/\ lastOp'.name = "skipFocusTask"
      /\ state.focusMode.enabled
      /\ Len(state.focusMode.queue) >= 2)
       => LET q == state.focusMode.queue
              a == state.focusMode.activeTaskId
          IN  state'.focusMode.activeTaskId = q[NextIndex(q, IndexOf(q, a))]]_vars

\* C8 amended: after skipFocusTask the active task is the front of the rotated
\* queue: the task that followed the skipped one when the skipped task was the
\* front of the queue, and the old front otherwise.
C8_FrontBecomesActive ==
  [][(/\ lastOp'.name = "skipFocusTask"
      /\ state.focusMode.enabled
      /\ Len(state.focusMode.queue) >= 2)
       => LET q == state.focusMode.queue
              a == state.focusMode.activeTaskId
          IN  state'.focusMode.activeTaskId = IF IndexOf(q, a) = 1 THEN q[2] ELSE q[1]]_vars

\* a skip has rotated a queue of three
C8_Witness ==
  /\ lastOp.name = "skipFocusTask" /\ lastOp.commits >= 1
  /\ Len(state.focusMode.queue) >= 3
  /\ state.focusMode.activeTaskId = state.focusMode.queue[1]

\* C9: exitFocusMode, setFocusMode(false) and toggleFocusMode while enabled clear
\* the active id and the queue, leave tasks, settings and autoPlanEnabled as they
\* were and do not call the Scheduler.
C9_ExitClearsFocusOnly ==
  [][(\/ lastOp'.name \in {"exitFocusMode", "setFocusMode(false)"}
      \/ (lastOp'.name = "toggleFocusMode" /\ state.focusMode.enabled))
       => /\ state'.focusMode = NoFocus
          /\ state'.tasks = state.tasks
          /\ state'.settings = state.settings
          /\ state'.autoPlanEnabled = state.autoPlanEnabled
          /\ lastOp'.sched = 0]_vars

\* focus mode was toggled off with tasks in the store and an active-status task
C9_Witness ==
  /\ lastOp.name = "toggleFocusMode" /\ lastOp.commits = 1
  /\ ~state.focusMode.enabled
  /\ Len(state.tasks) >= 2
  /\ \E j \in 1..Len(state.tasks) : state.tasks[j].status = "active"

\* C10: when the cache write fails (setItem throws, or there is no storage) the
\* mutation still replaces the held state, every listener is notified once per
\* commit and nothing is thrown; the cache keeps what it held.
C10_WriteFailureSwallowed ==
  [][(storage # "ok" /\ lastOp'.persists > 0)
       => /\ ~lastOp'.threw
          /\ lastOp'.commits = lastOp'.persists
          /\ lastOp'.notified = lastOp'.commits * listeners
          /\ cache' = cache
          /\ lastOp'.name = "addQuickTask" => Len(state'.tasks) = Len(state.tasks) + 1
          /\ lastOp'.name = "setSession" => state'.session.isAuthenticated
          /\ lastOp'.name = "enterFocusMode" => state'.focusMode.enabled]_vars

\* a task was added and the listener notified while setItem throws
C10_Witness ==
  /\ storage = "quota"
  /\ lastOp.name = "addQuickTask" /\ lastOp.persists = 1
  /\ listeners = 1 /\ lastOp.notified = 1
  /\ Len(state.tasks) = 1
  /\ cache = AbsentBlob

\* C11: hydrating from an absent, unparsable or wrongly shaped blob gives the
\* default state and raises no error.
C11_BadBlobGivesDefault ==
  (lastOp.name = "hydrateState" /\ cache.kind \in {"absent", "malformed", "wrongShape"})
    => /\ hydration = "ok"
       /\ ~lastOp.threw
       /\ state = createDefaultState

\* C12: in createTaskStore, updateTask and removeTask with an id no held task has
\* leave tasks, settings, capacityUsage and lastPlannedAt as they were, do not run
\* the scheduler again and notify no listener.
C12_MissingIdLeavesTaskStore ==
  [][(/\ planOp'.name \in {"updateTask", "removeTask"}
      /\ planOp'.id \notin TaskIdsOf(taskStore.tasks))
       => /\ taskStore' = taskStore
          /\ planOp'.planned = 0
          /\ planOp'.notified = 0]_vars

\* removeTask missed every task of a store that holds tasks and has a listener
C12_Witness ==
  /\ planOp.name = "removeTask"
  /\ planOp.id \notin TaskIdsOf(taskStore.tasks)
  /\ planOp.planned = 0
  /\ Len(taskStore.tasks) >= 1
  /\ taskStoreListeners = 1

\* the tasks a run re-assigns: overdue or unscheduled backlog
Queued(t, settings, today) ==
  Classify(NormalizeTask(t), today, HorizonDates(settings, today)) \in {"overdue", "unscheduled"}

\* the list without its element at position i
Without(ts, i) == [k \in 1..(Len(ts) - 1) |-> IF k < i THEN ts[k] ELSE ts[k + 1]]

\* no day of the horizon has the capacity for the task at all
NeverFits(t, settings, today) ==
  \A d \in HorizonDates(settings, today) : capacityForDay(settings, d) < t.durationMinutes

\* what a run from before to after did with the queued task at position i
UnplaceableHandled(before, after, i) ==
  /\ NeverFits(before.tasks[i], before.settings, startOfDay(after.lastPlannedAt))
       => after.tasks[i].plannedDate = Null
  /\ after.tasks[i].plannedDate = Null
       => /\ ~after.tasks[i].manualPinned
          /\ after.tasks[i].atRisk
          /\ after.capacityUsage =
               autoPlan(Without(before.tasks, i), before.settings,
                        after.lastPlannedAt).capacityUsage

\* C13: a queued task of non-zero duration that no horizon day has room for comes
\* back with plannedDate null, manualPinned false and atRisk true, and the ledger
\* is the one autoPlan returns for the same list without that task.
C13_UnplaceableTaskIsAtRisk ==
  [][planOp'.name \in {"createTaskStore", "autoPlan"}
       => /\ Len(taskStore'.tasks) = Len(taskStore.tasks)
          /\ \A i \in 1..Len(taskStore.tasks) :
               (/\ Queued(taskStore.tasks[i], taskStore.settings,
                          startOfDay(taskStore'.lastPlannedAt))
                /\ taskStore.tasks[i].durationMinutes > 0)
                 => UnplaceableHandled(taskStore, taskStore', i)]_vars

\* the first plan left a 500-minute task unplaced next to a task it placed today
C13_Witness ==
  /\ planOp.name = "createTaskStore"
  /\ Len(taskStore.tasks) = 2
  /\ \E i, j \in 1..2 :
       /\ taskStore.tasks[i].durationMinutes = 500
       /\ taskStore.tasks[i].plannedDate = Null
       /\ taskStore.tasks[i].atRisk
       /\ taskStore.tasks[i].orderIndex # Null
       /\ taskStore.tasks[j].orderIndex # Null
       /\ taskStore.tasks[j].plannedDate = Today
       /\ taskStore.capacityUsage[Today].used = taskStore.tasks[j].durationMinutes
       /\ taskStore.tasks[j].durationMinutes > 0

\* an open task is one that is neither done nor archived
OpenTask(t) == t.status \notin {"done", "archived"}

\* the task was planned for a day before today when the run started
WasOverdue(t, today) ==
  OpenTask(t) /\ t.plannedDate # Null /\ startOfDay(t.plannedDate) < today

\* C14: after a run no open task is planned before the reference day, and every
\* task that was overdue, pinned or not, ends unpinned and planned inside the
\* horizon or not at all.
C14_NoOverduePlacement ==
  [][planOp'.name \in {"createTaskStore", "autoPlan"}
       => \A i \in 1..Len(taskStore'.tasks) :
            /\ OpenTask(taskStore'.tasks[i])
                 => \/ taskStore'.tasks[i].plannedDate = Null
                    \/ taskStore'.tasks[i].plannedDate >= startOfDay(taskStore'.lastPlannedAt)
            /\ WasOverdue(taskStore.tasks[i], startOfDay(taskStore'.lastPlannedAt))
                 => /\ ~taskStore'.tasks[i].manualPinned
                    /\ \/ taskStore'.tasks[i].plannedDate = Null
                       \/ taskStore'.tasks[i].plannedDate \in
                            HorizonDates(taskStore.settings,
                                         startOfDay(taskStore'.lastPlannedAt))]_vars

\* the first plan moved the pinned active task of yesterday to today, while an
\* archived task of yesterday stays where it was
C14_Witness ==
  /\ planOp.name = "createTaskStore"
  /\ Len(taskStore.tasks) = 2
  /\ \E i, j \in 1..2 :
       /\ taskStore.tasks[i].status = "active"
       /\ taskStore.tasks[i].plannedDate = Today
       /\ ~taskStore.tasks[i].manualPinned
       /\ taskStore.tasks[j].status = "archived"
       /\ taskStore.tasks[j].plannedDate = Today - MS_IN_DAY

\* the step plans again, for the same day, what the previous run returned
SameDayReplan ==
  /\ planOp.name \in {"createTaskStore", "autoPlan"}
  /\ planOp'.name = "autoPlan"
  /\ taskStore'.settings = taskStore.settings
  /\ startOfDay(taskStore'.lastPlannedAt) = startOfDay(taskStore.lastPlannedAt)

\* C15: planning again what autoPlan returned, with the same settings and for the
\* same reference day, leaves the plannedDate of every placed task, inside or
\* beyond the horizon, unchanged and returns the same used total for every day.
C15_ReplanIsIdempotent ==
  [][SameDayReplan
       => /\ Len(taskStore'.tasks) = Len(taskStore.tasks)
          /\ \A i \in 1..Len(taskStore.tasks) :
               taskStore.tasks[i].plannedDate # Null
                 => taskStore'.tasks[i].plannedDate = taskStore.tasks[i].plannedDate
          /\ DOMAIN taskStore'.capacityUsage = DOMAIN taskStore.capacityUsage
          /\ \A d \in DOMAIN taskStore.capacityUsage :
               taskStore'.capacityUsage[d].used = taskStore.capacityUsage[d].used]_vars

\* a second run has renumbered the task that is still unplaced, next to a task
\* the first run had placed and a pinned task that overbooks today
C15_Witness ==
  /\ planOp.name = "autoPlan"
  /\ Len(taskStore.tasks) = 2
  /\ \E i, j \in 1..2 :
       /\ taskStore.tasks[i].plannedDate = Null
       /\ taskStore.tasks[i].atRisk
       /\ taskStore.tasks[i].orderIndex = 0
       /\ taskStore.tasks[j].plannedDate # Null
       /\ taskStore.tasks[j].orderIndex = 0
       /\ taskStore.capacityUsage[taskStore.tasks[j].plannedDate].used
            = taskStore.tasks[j].durationMinutes

\* the fields of a task the scheduler does not own
UserFields ==
  {"id", "status", "priority", "durationMinutes", "dueDate", "createdAt", "manualPinned"}

SameOn(a, b, fields) == \A f \in fields : a[f] = b[f]

Permuted(ts, perm) == [k \in 1..Len(ts) |-> ts[perm[k]]]

\* what a run decides for a task
OutcomeOf(t) == <<t.id, t.plannedDate, t.atRisk, t.orderIndex>>

Outcomes(ts) == [k \in DOMAIN ts |-> OutcomeOf(ts[k])]

\* due date ascending with none last, priority descending, duration descending,
\* creation time ascending, id
SortKey(t) ==
  <<IF t.dueDate = Null THEN 1 ELSE 0, IF t.dueDate = Null THEN 0 ELSE t.dueDate,
    0 - t.priority, 0 - t.durationMinutes, t.createdAt, t.id>>

LexBefore(a, b) ==
  \E k \in 1..Len(a) : a[k] < b[k] /\ \A m \in 1..(k - 1) : a[m] = b[m]

\* the positions of the tasks a run re-assigns
QueuedPositions(held, today) ==
  {i \in 1..Len(held.tasks) : Queued(held.tasks[i], held.settings, today)}

\* the number of re-assigned tasks that sort before the task at position i
RankOf(held, today, i) ==
  Cardinality({j \in QueuedPositions(held, today) :
                 LexBefore(SortKey(held.tasks[j]), SortKey(held.tasks[i]))})

\* C17: a run gives every task the same plannedDate, atRisk and orderIndex
\* whatever the order of the input list, and the orderIndex of a re-assigned
\* task is its rank, from 0, in the order due date ascending (none last),
\* priority descending, duration descending, creation time ascending, id.
C17_OrderIndependentOfInput ==
  [][planOp'.name \in {"createTaskStore", "autoPlan"}
       => /\ \A perm \in Permutations(1..Len(taskStore.tasks)) :
               Outcomes(autoPlan(Permuted(taskStore.tasks, perm), taskStore.settings,
                                 taskStore'.lastPlannedAt).tasks)
                 = Outcomes(Permuted(taskStore'.tasks, perm))
          /\ \A i \in QueuedPositions(taskStore, startOfDay(taskStore'.lastPlannedAt)) :
               taskStore'.tasks[i].orderIndex
                 = RankOf(taskStore, startOfDay(taskStore'.lastPlannedAt), i)]_vars

\* the first plan numbered two tasks that differ in nothing but their id
C17_Witness ==
  /\ planOp.name = "createTaskStore"
  /\ Len(taskStore.tasks) = 2
  /\ SameOn(taskStore.tasks[1], taskStore.tasks[2], UserFields \ {"id"})
  /\ taskStore.tasks[1].orderIndex = 0
  /\ taskStore.tasks[2].orderIndex = 1
  /\ taskStore.tasks[1].plannedDate = Today
  /\ taskStore.tasks[2].plannedDate = Today + MS_IN_DAY

\* no two tasks of the list have the same id
DistinctIds(ts) == \A i, j \in 1..Len(ts) : i # j => ts[i].id # ts[j].id

\* the ids, position by position, after an operation that found its task (or
\* has no target), after one that appended a task, and after a removal
IdsKept(before, after) == IdsOf(after) = IdsOf(before)

IdsAppended(before, after) ==
  /\ Len(after) = Len(before) + 1
  /\ IdsOf(after) = Append(IdsOf(before), after[Len(after)].id)
  /\ after[Len(after)].id \notin TaskIdsOf(before)

IdsRemoved(before, after) ==
  \E id \in TaskIdsOf(before) : IdsOf(after) = SelectSeq(IdsOf(before), LAMBDA other : other # id)

\* C18: ids stay pairwise distinct and no task changes its id: updateTask,
\* updateTaskStatus and the focus operations leave the list of ids as it was,
\* also when the patch carries another id; upsertTask and addQuickTask leave
\* it as it was when the id exists and append the new id otherwise; removeTask
\* takes one id out.
C18_IdsStable ==
  [][/\ DistinctIds(state'.tasks)
     /\ lastOp'.name \in {"updateTask", "updateTaskStatus", "enterFocusMode",
                          "completeFocusTask"}
          => IdsKept(state.tasks, state'.tasks)
     /\ lastOp'.name \in {"upsertTask", "addQuickTask"}
          => IF lastOp'.hit THEN IdsKept(state.tasks, state'.tasks)
             ELSE IdsAppended(state.tasks, state'.tasks)
     /\ lastOp'.name = "removeTask"
          => IF lastOp'.hit THEN IdsRemoved(state.tasks, state'.tasks)
             ELSE IdsKept(state.tasks, state'.tasks)]_vars

\* updateTask has just marked one of two tasks done with a patch that carries
\* an id, and both ids are still there
C18_Witness ==
  /\ lastOp.name = "updateTask"
  /\ lastOp.hit
  /\ lastOp.commits = 1
  /\ Len(state.tasks) = 2
  /\ TaskIdsOf(state.tasks) = {1, 2}
  /\ \E i \in 1..2 : state.tasks[i].status = "done"

\* the ids of the tasks that may be in the focus queue
EligibleIds(st) ==
  {st.tasks[i].id : i \in {k \in 1..Len(st.tasks) : Eligible(st.tasks[k], st.settings.weekSpan)}}

TaskOf(st, id) == st.tasks[FindIndex(st.tasks, id)]

\* the computed order: pinned first, then plannedDate ascending, then createdAt
\* ascending; a sorts strictly before b
FocusKeyBefore(a, b) ==
  \/ a.manualPinned /\ ~b.manualPinned
  \/ a.manualPinned = b.manualPinned /\ a.plannedDate < b.plannedDate
  \/ a.manualPinned = b.manualPinned /\ a.plannedDate = b.plannedDate
       /\ a.createdAt < b.createdAt

\* x stands before y in the new queue: both kept from base in the order they
\* had there, or x kept and y new, or both new in the computed order
InMergeOrder(base, st, x, y) ==
  IF x \in Range(base)
  THEN y \in Range(base) => IndexOf(base, x) < IndexOf(base, y)
  ELSE y \notin Range(base) /\ ~FocusKeyBefore(TaskOf(st, y), TaskOf(st, x))

\* the queue of st is base restricted to the eligible ids, each once, followed
\* by the other eligible ids in the computed order (the order of neighbours
\* decides the order of all, InMergeOrder being transitive)
MergedFrom(base, st) ==
  /\ Range(st.focusMode.queue) = EligibleIds(st)
  /\ Cardinality(Range(st.focusMode.queue)) = Len(st.focusMode.queue)
  /\ \A i \in 1..(Len(st.focusMode.queue) - 1) :
       InMergeOrder(base, st, st.focusMode.queue[i], st.focusMode.queue[i + 1])

\* the step committed a change while focus mode was and stays enabled
FocusedCommit ==
  state.focusMode.enabled /\ state'.focusMode.enabled /\ lastOp'.commits > 0

\* the step switched focus mode on
FocusEntered == ~state.focusMode.enabled /\ state'.focusMode.enabled

\* C19 as stated: after any mutation committed while focus mode is enabled the
\* queue is the previous queue restricted to the still eligible ids, in their
\* previous order, followed by the newly eligible ids in the computed order;
\* on entering focus mode it is the eligible set in the computed order.
C19_QueueKeepsPreviousOrder ==
  [][/\ FocusedCommit => MergedFrom(state.focusMode.queue, state')
     /\ FocusEntered => MergedFrom(<<>>, state')]_vars

\* what skipFocusTask makes of the queue before the merge: the active id moved
\* from its first position to the end
SkippedQueue(fm) ==
  IF Len(fm.queue) <= 1 \/ IndexOf(fm.queue, fm.activeTaskId) = 0 THEN fm.queue
  ELSE [k \in 1..Len(fm.queue) |->
          IF k < IndexOf(fm.queue, fm.activeTaskId) THEN fm.queue[k]
          ELSE IF k < Len(fm.queue) THEN fm.queue[k + 1]
          ELSE fm.activeTaskId]

\* C19 amended: the merge starts from the previous queue for every operation
\* but skipFocusTask, where it starts from the previous queue with the active
\* id moved to the end.
C19_QueueMergesFromOperation ==
  [][/\ FocusedCommit
          => MergedFrom(IF lastOp'.name = "skipFocusTask"
                        THEN SkippedQueue(state.focusMode)
                        ELSE state.focusMode.queue, state')
     /\ FocusEntered => MergedFrom(<<>>, state')]_vars

\* a task that was ticked off and reopened during the session stands at the end
\* of the queue, although its plannedDate would sort it first
C19_Witness ==
  /\ lastOp.name = "updateTaskStatus"
  /\ lastOp.commits = 1
  /\ state.focusMode.enabled
  /\ state.focusMode.queue = <<1, 3, 2>>
  /\ FocusKeyBefore(TaskOf(state, 2), TaskOf(state, 1))

\* the front of a queue, null when it is empty
FrontOf(queue) == IF queue = <<>> THEN Null ELSE queue[1]

\* the active id is kept when it is in the new queue, else the front is active
ActiveKeptOrFront(kept, fm) ==
  fm.activeTaskId = IF kept # Null /\ kept \in Range(fm.queue) THEN kept ELSE FrontOf(fm.queue)

\* what completeFocusTask did with the task that was active
CompletedActive(before, after) ==
  /\ TaskOf(after, before.focusMode.activeTaskId).status = "done"
  /\ ~TaskOf(after, before.focusMode.activeTaskId).manualPinned
  /\ before.focusMode.activeTaskId \notin Range(after.focusMode.queue)
  /\ after.focusMode.activeTaskId = FrontOf(after.focusMode.queue)

\* C20 as stated: after any mutation committed while focus mode stays enabled
\* the previously active id is still active if it is in the merged queue, else
\* the front of the merged queue is (null if it is empty); completeFocusTask
\* leaves the completed task done, unpinned and out of the queue, the front of
\* which is active.
C20_ActiveKept ==
  [][FocusedCommit
       => /\ ActiveKeptOrFront(state.focusMode.activeTaskId, state'.focusMode)
          /\ lastOp'.name = "completeFocusTask" => CompletedActive(state, state')]_vars

\* the id skipFocusTask and focusNextTask make active before the merge: the
\* front of the rotated queue, and the id after the active one
SelectedActive(name, fm) ==
  IF Len(fm.queue) <= 1 \/ IndexOf(fm.queue, fm.activeTaskId) = 0 THEN fm.activeTaskId
  ELSE IF name = "skipFocusTask" THEN FrontOf(SkippedQueue(fm))
  ELSE IF name = "focusNextTask"
  THEN fm.queue[(IndexOf(fm.queue, fm.activeTaskId) % Len(fm.queue)) + 1]
  ELSE fm.activeTaskId

\* C20 amended: skipFocusTask and focusNextTask choose the active id themselves;
\* every other operation keeps the previously active id as stated.
C20_ActiveKeptUnlessSelected ==
  [][FocusedCommit
       => /\ ActiveKeptOrFront(SelectedActive(lastOp'.name, state.focusMode),
                               state'.focusMode)
          /\ lastOp'.name = "completeFocusTask" => CompletedActive(state, state')]_vars

\* completeFocusTask has finished the second task of the queue, which was
\* active, and the front of the queue took over
C20_Witness ==
  /\ lastOp.name = "completeFocusTask"
  /\ lastOp.commits = 1
  /\ state.focusMode.queue = <<2, 3>>
  /\ state.focusMode.activeTaskId = 2
  /\ TaskOf(state, 1).status = "done"
  /\ TaskOf(state, 1).completedAt = Now

\* C21: reconciling the focus mode of a state that is already reconciled, against
\* the same tasks, settings and reference day, returns the same enabled flag, the
\* same active task id and the same queue in the same order.
C21_ReconcileIsIdempotent ==
  reconcileFocusModeState(state, state) = state.focusMode

\* a reconciled state whose queue is not in computed order and whose active task
\* is not the front: a second pass that recomputed either would change it
C21_Witness ==
  /\ state.focusMode.enabled
  /\ Len(state.focusMode.queue) >= 3
  /\ state.focusMode.queue # computeFocusQueue(state.tasks, state.settings)
  /\ state.focusMode.activeTaskId # state.focusMode.queue[1]
  /\ lastOp.commits > 0

\* C22: with focus mode enabled and two or more queue entries focusNextTask makes
\* the id at the following queue position active (the first one after the last),
\* leaves the queue as it was, and puts the task that was active back to backlog
\* when its status was active and leaves its status otherwise.
C22_FocusNextAdvances ==
  [][(/\ lastOp'.name = "focusNextTask"
      /\ state.focusMode.enabled
      /\ Len(state.focusMode.queue) >= 2)
       => LET q == state.focusMode.queue
              a == state.focusMode.activeTaskId
              i == IndexOf(q, a)
          IN  /\ i > 0
              /\ state'.focusMode.activeTaskId = IF i = Len(q) THEN q[1] ELSE q[i + 1]
              /\ state'.focusMode.queue = q
              /\ state'.focusMode.enabled
              /\ Len(state'.tasks) = Len(state.tasks)
              /\ \A j \in 1..Len(state.tasks) :
                   /\ state'.tasks[j].id = state.tasks[j].id
                   /\ state'.tasks[j].status =
                        IF state.tasks[j].id = a /\ state.tasks[j].status = "active"
                        THEN "backlog"
                        ELSE state.tasks[j].status]_vars

\* focusNextTask wrapped from the last of three queue entries to the first and
\* demoted the task that was active
C22_Witness ==
  /\ lastOp.name = "focusNextTask" /\ lastOp.commits = 2
  /\ Len(state.focusMode.queue) >= 3
  /\ state.focusMode.activeTaskId = state.focusMode.queue[1]
  /\ \E j \in 1..Len(state.tasks) :
       /\ state.tasks[j].id = state.focusMode.queue[Len(state.focusMode.queue)]
       /\ state.tasks[j].status = "backlog"
       /\ state.tasks[j].completedAt = Null

\* the operations whose setState hands over a patch with a tasks or settings key
\* of a new reference, without skipAutoPlan, and commits it
TouchedPlanInputs(name, commits, before, after) ==
  \/ name \in {"upsertTask", "addQuickTask", "updateTask", "removeTask", "updateTaskStatus",
               "startFocusTask", "completeFocusTask"} /\ commits = 1
  \/ name \in {"setTasks", "updateSettings"} /\ commits = 1
  \/ name \in {"skipFocusTask", "focusNextTask"} /\ after.tasks # before.tasks

\* C23: a mutation calls the Scheduler callback exactly when it committed a patch
\* holding tasks or settings of a new reference, autoPlanEnabled is true in the new
\* state, a callback is registered and skipAutoPlan was not set; so never while
\* autoPlanEnabled is false, and never from enterFocusMode, exitFocusMode,
\* toggleFocusMode, setSession, clearSession or setAutoPlanEnabled.
C23_SchedulerCalledExactlyWhen ==
  [][(lastOp'.name \notin {"subscribe", "unsubscribe", "setAutoPlanCallback", "runAutoPlan"})
       => /\ lastOp'.sched =
               IF /\ TouchedPlanInputs(lastOp'.name, lastOp'.commits, state, state')
                  /\ state'.autoPlanEnabled
                  /\ autoPlanCallback # "none"
               THEN 1 ELSE 0
          /\ ~state'.autoPlanEnabled => lastOp'.sched = 0
          /\ lastOp'.name \in {"enterFocusMode", "exitFocusMode", "toggleFocusMode",
                               "setFocusMode(true)", "setFocusMode(false)", "setSession",
                               "clearSession", "setAutoPlanEnabled", "setTasks(same)",
                               "resetStore"}
               => lastOp'.sched = 0]_vars

\* a task's status was changed with a callback registered and automatic planning
\* on, and the callback ran once
C23_Witness ==
  /\ lastOp.name = "updateTaskStatus" /\ lastOp.commits = 1 /\ lastOp.sched = 1
  /\ state.autoPlanEnabled
  /\ autoPlanCallback = "record"

\* the entries of a kind that an activation at depth d logged before entry i
EntriesOf(kind, d, i) ==
  {j \in 1..(i - 1) : events[j].kind = kind /\ events[j].depth = d}

\* the latest of them, 0 when there is none
LastOf(kind, d, i) ==
  IF EntriesOf(kind, d, i) = {} THEN 0
  ELSE CHOOSE j \in EntriesOf(kind, d, i) : \A k \in EntriesOf(kind, d, i) : k <= j

\* the latest commit before entry i, of any activation
LastCommit(i) ==
  CHOOSE j \in 1..(i - 1) :
    /\ events[j].kind = "replace"
    /\ \A k \in (j + 1)..(i - 1) : events[k].kind # "replace"

\* entry i is a notification: its activation has replaced the held state and
\* written the cache and has not called the Scheduler yet; getState() gives the
\* latest commit, which is reconciled
NotifiedInOrder(i) ==
  /\ LastOf("replace", events[i].depth, i) > 0
  /\ LastOf("persist", events[i].depth, i) > LastOf("replace", events[i].depth, i)
  /\ LastOf("schedule", events[i].depth, i) < LastOf("replace", events[i].depth, i)
  /\ events[i].held = events[LastCommit(i)].arg
  /\ reconcileFocusModeState(events[i].held, events[i].held) = events[i].held.focusMode
  /\ events[i - 1].kind = "persist" => events[i].held = events[i].arg

\* entry i is a Scheduler call: every listener has been notified of the commit
ScheduledInOrder(i) ==
  /\ LastOf("replace", events[i].depth, i) > 0
  /\ Cardinality({j \in EntriesOf("notify", events[i].depth, i) :
                    j > LastOf("replace", events[i].depth, i)}) = listeners

\* entry i commits Scheduler output: the Scheduler call it answers came before
MergedInOrder(i) ==
  /\ LastOf("schedule", events[i].depth - 1, i) > 0
  /\ ScheduledInOrder(LastOf("schedule", events[i].depth - 1, i))

\* C24: within one mutation the held state is replaced, then the cache written,
\* then every subscriber notified, and only then the Scheduler called: at every
\* notification getState() returns the committed, reconciled state, and the
\* subscribers have been notified of a commit before Scheduler output for it is
\* committed.
C24_CommitPersistNotifySchedule ==
  \A i \in 1..Len(events) :
    /\ events[i].kind = "persist" =>
         (i > 1 /\ events[i - 1].kind = "replace" /\ events[i - 1].depth = events[i].depth
                /\ events[i].held = events[i].arg)
    /\ events[i].kind = "notify" => NotifiedInOrder(i)
    /\ events[i].kind = "schedule" => ScheduledInOrder(i)
    /\ (events[i].kind = "replace" /\ events[i].op = "mergePlan") => MergedInOrder(i)

\* a task was added, the listeners were notified of it, the Scheduler ran and its
\* plan was committed and notified in turn
C24_Witness ==
  /\ calls = <<>>
  /\ lastOp.name = "addQuickTask" /\ lastOp.sched = 1 /\ lastOp.commits = 2
  /\ lastOp.notified = 2 * listeners
  /\ events[Len(events)].kind = "notify" /\ events[Len(events)].op = "mergePlan"
  /\ \E j \in 1..Len(state.tasks) : state.tasks[j].plannedDate = Today

CountOf(kind) == Cardinality({j \in 1..Len(events) : events[j].kind = kind})

MergesOf == Cardinality({j \in 1..Len(events) :
                           events[j].kind = "replace" /\ events[j].op = "mergePlan"})

NoListenerMutated == \A j \in 1..Len(events) : events[j].op # "listener"

\* what a mutation that has returned has done
RanOnce ==
  /\ CountOf("schedule") = MergesOf
  /\ CountOf("notify") = CountOf("replace") * listeners
  /\ NoListenerMutated =>
       /\ lastOp.sched <= 1
       /\ lastOp.commits = 1 + lastOp.sched
       /\ lastOp.notified = lastOp.commits * listeners

\* C25: every mutation terminates; one that triggers the Scheduler causes exactly
\* one further commit-and-notify cycle, the merge of the Scheduler's output, and
\* the merge triggers no further scheduling pass.
C25_MutationTerminates ==
  /\ [](\A i \in 1..Len(events) :
          events[i].kind = "schedule" => events[i].op # "mergePlan")
  /\ [](calls = <<>> /\ events # <<>> => RanOnce)
  /\ (calls # <<>>) ~> (calls = <<>>)

\* a quick task was added with no listener interfering: the mutation has
\* returned after its own commit and the merge of the plan
C25_Witness ==
  /\ calls = <<>>
  /\ lastOp.name = "addQuickTask" /\ lastOp.sched = 1
  /\ NoListenerMutated
  /\ CountOf("replace") = 2
  /\ events[Len(events)].op = "mergePlan"

\* C28: whenever a mutation calls the Scheduler callback, the state it hands over
\* is the state the store holds at that moment, also when a listener issued a
\* mutation of its own while it was notified of that mutation's commit; so no
\* later commit is overwritten by a plan computed from an older snapshot.
C28_CallbackGetsHeldState ==
  \A i \in 1..Len(events) :
    events[i].kind = "schedule" => events[i].arg = events[i].held

\* the days today .. today + min(21, max(1, planningHorizonDays)) - 1
RangeOfDays(settings, today) ==
  {today + k * MS_IN_DAY :
     k \in 0..(Min(HorizonCeiling, Max(1, settings.planningHorizonDays)) - 1)}

\* the task at position k holds minutes of day e when the queued task at position
\* i is processed: it is a fixed reservation of e, or it is a queued task walked
\* earlier and assigned to e
HoldsBefore(before, after, e, i, k) ==
  \/ /\ Classify(NormalizeTask(before.tasks[k]), startOfDay(after.lastPlannedAt),
                 RangeOfDays(before.settings, startOfDay(after.lastPlannedAt))) = "placed"
     /\ startOfDay(before.tasks[k].plannedDate) = e
  \/ /\ k # i
     /\ Queued(before.tasks[k], before.settings, startOfDay(after.lastPlannedAt))
     /\ before.tasks[k].durationMinutes > 0
     /\ after.tasks[k].orderIndex < after.tasks[i].orderIndex
     /\ after.tasks[k].plannedDate = e

RECURSIVE ReservedBefore(_, _, _, _, _)
ReservedBefore(before, after, e, i, k) ==
  IF k > Len(before.tasks) THEN 0
  ELSE (IF HoldsBefore(before, after, e, i, k) THEN before.tasks[k].durationMinutes ELSE 0)
         + ReservedBefore(before, after, e, i, k + 1)

\* the remaining capacity of day e at the moment the task at position i is processed
RemainingWhen(before, after, e, i) ==
  Max(0, capacityForDay(before.settings, e) - ReservedBefore(before, after, e, i, 1))

\* the days that had room for the task at position i when it was processed
RoomFor(before, after, i) ==
  {e \in RangeOfDays(before.settings, startOfDay(after.lastPlannedAt)) :
     RemainingWhen(before, after, e, i) >= before.tasks[i].durationMinutes}

\* what a run from before to after did with the queued task at position i
EarliestFit(before, after, i) ==
  /\ after.tasks[i].plannedDate = Null => RoomFor(before, after, i) = {}
  /\ after.tasks[i].plannedDate # Null =>
       /\ after.tasks[i].plannedDate \in RoomFor(before, after, i)
       /\ \A e \in RoomFor(before, after, i) : after.tasks[i].plannedDate <= e
       /\ after.tasks[i].atRisk = (/\ before.tasks[i].dueDate # Null
                                   /\ after.tasks[i].plannedDate > before.tasks[i].dueDate)

\* C26: autoPlan assigns each queued task of non-zero duration to the earliest day
\* of today .. today + min(21, max(1, planningHorizonDays)) - 1 whose remaining
\* capacity, at the moment the task is processed, covers its duration: never a day
\* outside that range, never a day after one that had room; its atRisk is true
\* exactly when it has a due date and the day is after it.
C26_EarliestDayWithRoom ==
  [][planOp'.name \in {"createTaskStore", "autoPlan"}
       => /\ Len(taskStore'.tasks) = Len(taskStore.tasks)
          /\ \A i \in 1..Len(taskStore.tasks) :
               (/\ Queued(taskStore.tasks[i], taskStore.settings,
                          startOfDay(taskStore'.lastPlannedAt))
                /\ taskStore.tasks[i].durationMinutes > 0)
                 => EarliestFit(taskStore, taskStore', i)]_vars

\* two tasks of 200 minutes and a day of 240: the first walked is on today, the
\* second on the day after
C26_Witness ==
  /\ planOp.name = "createTaskStore"
  /\ Len(taskStore.tasks) = 2
  /\ taskStore.settings.dailyCapacityMinutes = 240
  /\ \E i, j \in 1..2 :
       /\ taskStore.tasks[i].durationMinutes = 200
       /\ taskStore.tasks[j].durationMinutes = 200
       /\ taskStore.tasks[i].orderIndex = 0
       /\ taskStore.tasks[j].orderIndex = 1
       /\ taskStore.tasks[i].plannedDate = Today
       /\ taskStore.tasks[j].plannedDate = Today + MS_IN_DAY
       /\ ~taskStore.tasks[j].atRisk

\* the ids of the tasks the store holds that are not done, not archived and
\* planned for a moment of the reference day
TodayBucketIds(st) ==
  {st.tasks[k].id :
     k \in {n \in 1..Len(st.tasks) :
              /\ st.tasks[n].status \notin {"done", "archived"}
              /\ st.tasks[n].plannedDate # Null
              /\ startOfDay(st.tasks[n].plannedDate) = Today}}

\* C27: whenever focus mode is enabled the queue holds no id twice and its ids are
\* exactly those of the eligible tasks (in the store, not done, not archived,
\* plannedDate in the today bucket); so it never holds the id of a removed task.
C27_QueueIsEligibleSet ==
  state.focusMode.enabled =>
    /\ \A i, j \in 1..Len(state.focusMode.queue) :
         i # j => state.focusMode.queue[i] # state.focusMode.queue[j]
    /\ Range(state.focusMode.queue) = TodayBucketIds(state)

\* a task was removed during a focus session in which another task is done: the
\* queue holds the one task that is left to do
C27_Witness ==
  /\ lastOp.name = "removeTask" /\ lastOp.hit
  /\ state.focusMode.enabled
  /\ Len(state.tasks) = FocusTasks - 1
  /\ \E k \in 1..Len(state.tasks) : state.tasks[k].status = "done"
  /\ Len(state.focusMode.queue) = FocusTasks - 2

\* what the store holds once the call named by op has replaced its tasks or its
\* settings and before it plans: one candidate for each input a caller may pass
UpdatedBy(held, op) ==
  IF op.name = "loadTasks" THEN {[held EXCEPT !.tasks = ts] : ts \in LoadInputs}
  ELSE IF op.name = "addTask"
    THEN {[held EXCEPT !.tasks = Append(@, t)] : t \in {x \in PlanTaskInputs : x.id = op.id}}
  ELSE IF op.name = "updateTask"
    THEN {[held EXCEPT !.tasks[FindIndex(held.tasks, op.id)] = mergeTask(@, patch)] :
            patch \in PlanTaskPatches}
  ELSE IF op.name = "removeTask"
    THEN {[held EXCEPT !.tasks = SelectSeq(@, LAMBDA t : t.id # op.id)]}
  ELSE IF op.name = "setSettings"
    THEN {[held EXCEPT !.settings = mergeSettings(@, settings)] :
            settings \in PlanSettingsPatches}
  ELSE {held}

\* the part of a scheduler run, or of what the store holds, that the run decides
PlanOutcome(r) == <<r.tasks, r.capacityUsage>>

\* after holds the tasks of updated in their positions and the settings of updated
SameInputs(updated, after) ==
  /\ after.settings = updated.settings
  /\ Len(after.tasks) = Len(updated.tasks)
  /\ \A i \in 1..Len(updated.tasks) :
       /\ after.tasks[i].id = updated.tasks[i].id
       /\ after.tasks[i].status = updated.tasks[i].status
       /\ after.tasks[i].durationMinutes = updated.tasks[i].durationMinutes

\* after holds the scheduler's output for updated and the reference day
PlanOf(updated, reference, after) ==
  /\ SameInputs(updated, after)
  /\ PlanOutcome(after) = PlanOutcome(autoPlan(updated.tasks, updated.settings, reference))

PlanningCalls == {"loadTasks", "addTask", "updateTask", "removeTask", "setSettings", "autoPlan"}

\* C29: createTaskStore, and every loadTasks, addTask, updateTask and removeTask of
\* an id the store holds, setSettings and autoPlan call, leaves as tasks and
\* capacityUsage the scheduler's output for the updated tasks and settings and the
\* call's reference day; the call notifies each subscribed listener once, with
\* that planned state and never an unplanned one, and nobody who unsubscribed.
C29_PlanThenNotify ==
  /\ \E initialState \in InitialStates :
       PlanOf(InitialHeld(initialState), ReferenceOf(initialState.lastPlannedAt), taskStore)
  /\ [][(planOp'.name \in PlanningCalls /\ planOp'.hit)
         => /\ planOp'.notified = taskStoreListeners'
            /\ PlanOutcome(planOp'.snapshot) = PlanOutcome(taskStore')
            /\ \E updated \in UpdatedBy(taskStore, planOp') :
                 PlanOf(updated, ReferenceOf(planOp'.today), taskStore')]_vars

\* a task was added for tomorrow while one listener was subscribed: it was
\* notified once, of a state in which the task is placed on that day
C29_Witness ==
  /\ planOp.name = "addTask" /\ planOp.hit
  /\ planOp.today = Now + MS_IN_DAY
  /\ planOp.notified = 1 /\ taskStoreListeners = 1
  /\ Len(planOp.snapshot.tasks) = 1
  /\ planOp.snapshot.tasks[1].plannedDate = Today + MS_IN_DAY
  /\ planOp.snapshot.tasks[1].orderIndex = 0

\* C30: persist then load is a round trip.  When the latest commit was written to
\* the cache, hydrating from the cached blob on the same reference day gives the
\* tasks, settings, autoPlanEnabled, session and focus mode (enabled, active task
\* and queue order) the store holds, and the blob is the snapshot of that state.
C30_PersistThenLoad ==
  (storage = "ok" /\ lastOp.persists > 0)
    => /\ cache = SnapshotBlob(state)
       /\ hydrateState(cache) = [tasks           |-> state.tasks,
                                 settings        |-> state.settings,
                                 focusMode       |-> state.focusMode,
                                 autoPlanEnabled |-> state.autoPlanEnabled,
                                 session         |-> state.session]

\* the active task was skipped: the queue written is in an order of the user's
\* making, not the computed one, and a load would bring that order back
C30_Witness ==
  /\ lastOp.name = "skipFocusTask" /\ lastOp.hit /\ lastOp.persists > 0
  /\ state.focusMode.enabled
  /\ Len(state.focusMode.queue) = FocusTasks
  /\ state.focusMode.queue # computeFocusQueue(state.tasks, state.settings)
  /\ hydrateState(cache).focusMode.queue = state.focusMode.queue

====
